---------------------------- MODULE Spec2Model ----------------------------
(***************************************************************************)
(* A model of the newsletter generator's scoring and ranking core:        *)
(* User.matches_article, ArticleProcessor (process_articles,              *)
(* calculate_relevance_for_user, categorize_article, analyze_sentiment)   *)
(* and NewsletterGenerator (generate_newsletter, _generate_markdown).     *)
(*                                                                         *)
(* Strings are TLA+ strings; a text is the sequence of its lexemes (word, *)
(* number, punctuation and whitespace lexemes), so that tokenizing is     *)
(* dropping the whitespace lexemes of the lower-cased text.  Python       *)
(* floats are modelled exactly, as fixed-point integers: a relevance score *)
(* s is the integer s * One, a sentiment score s is the integer           *)
(* s * SentOne, where One and SentOne are multiples of every denominator  *)
(* the bounded inputs can produce.                                        *)
(***************************************************************************)
EXTENDS Integers, Sequences, FiniteSets, TLC

VARIABLES
    articles,       \* the Article objects, in fetch order
    users,          \* the reader profiles, by user id
    self_categories, \* the article processor's self.categories
    processed,      \* what the last process_articles returned (indices into articles)
    newsletter,     \* what generate_newsletter computed, when it was the last call
    scored,         \* history: the (article, reader) pairs calculate_relevance_for_user has scored
    overwrote,      \* history: the last call replaced a reader's score by a different one
    call,           \* a single call of a pure function: its name and arguments
    ret,            \* that call's return value
    pc              \* "call" before that call returns, "done" after

vars == <<articles, users, self_categories, processed, newsletter, scored, overwrote, call, ret, pc>>

pipelineVars == <<articles, users, self_categories, processed, newsletter, scored, overwrote>>

(***************************************************************************)
(* Bounds of the model.                                                    *)
(***************************************************************************)
MaxKeywords == 3
MaxInterests == 2
MaxExcluded == 2
MaxTextLen == 5
MaxArticles == 4
MaxLimit == 2

MaxCap == 2

MaxSentences == 3

MaxRuns == 2

MaxUsers == 3

MaxRetries == 2

MaxPerFeed == 2

MaxEntries == 2

MaxFeeds == 2

MaxTarget == 2

(***************************************************************************)
(* Sequences and strings.                                                  *)
(***************************************************************************)
Range(s) == {s[i] : i \in 1..Len(s)}

SeqsUpTo(S, n) == UNION {[1..k -> S] : k \in 0..n}

Min(a, b) == IF a <= b THEN a ELSE b

Max(a, b) == IF a >= b THEN a ELSE b

RECURSIVE Gcd(_, _)
Gcd(a, b) == IF b = 0 THEN a ELSE Gcd(b, a % b)

RECURSIVE LcmUpTo(_)
LcmUpTo(n) == IF n <= 1 THEN 1 ELSE LET l == LcmUpTo(n - 1) IN (l * n) \div Gcd(l, n)

UpperChars == "ABCDEFGHIJKLMNOPQRSTUVWXYZ"

LowerChars == "abcdefghijklmnopqrstuvwxyz"

Digits == "0123456789"

\* t in s, for Python strings: t is a contiguous part of s (the empty string is in every string)
Contains(s, t) == \E i \in 0..(Len(s) - Len(t)) : SubSeq(s, i + 1, i + Len(t)) = t

LowerChar(c) ==
    IF Contains(UpperChars, c)
    THEN LET i == CHOOSE k \in 1..Len(UpperChars) : SubSeq(UpperChars, k, k) = c
         IN SubSeq(LowerChars, i, i)
    ELSE c

\* str.lower(), character by character
RECURSIVE LowerOf(_)
LowerOf(s) ==
    IF Len(s) = 0 THEN s
    ELSE LowerChar(SubSeq(s, 1, 1)) \o LowerOf(SubSeq(s, 2, Len(s)))

(***************************************************************************)
(* Fixed point for relevance scores: the float x is the integer x * One.   *)
(* One is a multiple of 8 * |interests| for every length the model allows, *)
(* so that every division matches_article makes is exact.                  *)
(***************************************************************************)
One == 8 * LcmUpTo(MaxInterests)

(***************************************************************************)
(* The strings of the bounded inputs, and str.lower() tabulated on them    *)
(* (the table is computed once; Lower falls back on LowerOf elsewhere).    *)
(***************************************************************************)
ScoreKeywords == {"ai", "startup", "funding"}

ScoreInterests == {"AI", "machine learning"}

ScoreExcluded == {"fund", "START"}

ScoreSources == {"TechCrunch", "BBC News"}

ScoreCategories == {"technology", "general"}

\* the lexemes of the texts whose sentiment is analysed
SentimentLexemes == {"Good", "great", "bad", "RISK", "news", ".", " "}

\* the lexemes of the texts whose keywords are extracted
KeywordLexemes == {"the", "Stars", "star", "news", "...", "42", " "}

\* the sentences of the texts that are summarized, and what separates them
SummarySentences ==
    {<<"Stars", " ", "win", ".">>,
     <<"Good", " ", "news", "!">>,
     <<"news", ".">>,
     <<"the", " ", "news", "?">>,
     <<>>}

Separators == {<<" ">>, <<"\n", " ">>}

SummaryLexemes == UNION {Range(t) : t \in SummarySentences \cup Separators}

\* the keywords that are categorized
CategorizeKeywords == {"startup", "funding", "game", "star", "news", "zebra"}

\* the texts of the fetched articles
StartupText == <<"Startups", " ", "raise", " ", "funding", ".">>

GameText ==
    <<"Game", " ", "stars", ".", " ", "Good", " ", "game", "!", " ",
      "Bad", " ", "news", ".", " ", "Stars", " ", "win", ".">>

EmptyText == <<>>

ArticleTexts == {StartupText, GameText, EmptyText}

ArticleLexemes == UNION {{t[i] : i \in 1..Len(t)} : t \in ArticleTexts}

\* the interests and excluded keywords of the pipeline's readers
ReaderTerms == {"startup", "STAR", "news"}

InputStrings ==
    ScoreKeywords \cup ScoreInterests \cup ScoreExcluded \cup SentimentLexemes
    \cup CategorizeKeywords \cup ArticleLexemes \cup ReaderTerms \cup KeywordLexemes
    \cup SummaryLexemes

ModelStrings == InputStrings \cup {LowerOf(s) : s \in InputStrings}

LowerTable == [s \in ModelStrings |-> LowerOf(s)]

Lower(s) == IF s \in ModelStrings THEN LowerTable[s] ELSE LowerOf(s)

(***************************************************************************)
(* User.matches_article                                                    *)
(***************************************************************************)
\* Mutant of KeywordMatches: the substring test is case-sensitive.
KeywordMatchesCaseSensitive(article_keywords, terms) ==
    Cardinality({i \in 1..Len(article_keywords) :
        \E j \in 1..Len(terms) : Contains(article_keywords[i], terms[j])})

\* sum(1 for keyword in article_keywords if any(term.lower() in keyword.lower() for term in terms))
KeywordMatches(article_keywords, terms) ==
    Cardinality({i \in 1..Len(article_keywords) :
        \E j \in 1..Len(terms) : Contains(Lower(article_keywords[i]), Lower(terms[j]))})

SourceScore(user, source) ==
    IF source \in Range(user.preferred_sources) THEN One ELSE 0

CategoryScore(user, category) ==
    IF category \in Range(user.preferred_categories) THEN One ELSE 0

\* Mutant of InterestScore: the share of matching keywords is not capped at 1.0.
InterestScoreUncapped(user, article_keywords) ==
    IF KeywordMatches(article_keywords, user.interests) > 0
    THEN (((KeywordMatches(article_keywords, user.interests) * One)
              \div Len(user.interests)) * 3) \div 2
    ELSE 0

\* if interest_match > 0: score += min(interest_match / len(self.interests), 1.0) * 1.5
InterestScore(user, article_keywords) ==
    LET interest_match == KeywordMatches(article_keywords, user.interests)
    IN IF interest_match > 0
       THEN (Min((interest_match * One) \div Len(user.interests), One) * 3) \div 2
       ELSE 0

\* Mutant of ExcludedPenalty: the penalty stacks, 0.5 per matching keyword.
ExcludedPenaltyStacking(user, article_keywords) ==
    (KeywordMatches(article_keywords, user.excluded_keywords) * One) \div 2

\* if excluded_match > 0: score -= min(excluded_match, 1.0) * 0.5
ExcludedPenalty(user, article_keywords) ==
    LET excluded_match == KeywordMatches(article_keywords, user.excluded_keywords)
    IN IF excluded_match > 0
       THEN (Min(excluded_match * One, One)) \div 2
       ELSE 0

max_score == 4

\* Mutant of Normalize: the quotient is returned without clamping.
NormalizeUnclamped(score) == score \div max_score

\* return max(0.0, min(score / max_score, 1.0))
Normalize(score) == Max(0, Min(score \div max_score, One))

matches_article(user, article_keywords, source, category) ==
    Normalize(SourceScore(user, source)
              + CategoryScore(user, category)
              + InterestScore(user, article_keywords)
              - ExcludedPenalty(user, article_keywords))

(***************************************************************************)
(* Texts.  A text is the sequence of its lexemes; the whitespace lexemes   *)
(* separate the others, which are the tokens word_tokenize returns.        *)
(***************************************************************************)
Whitespace == {" ", "\n"}

\* text.lower()
LowerText(text) == [i \in 1..Len(text) |-> Lower(text[i])]

\* nltk's word_tokenize, on a sequence of lexemes
word_tokenize(text) == SelectSeq(text, LAMBDA lexeme : lexeme \notin Whitespace)

\* str.isalpha(): at least one character, and letters only
IsAlphaOf(s) ==
    /\ Len(s) > 0
    /\ \A i \in 1..Len(s) :
          Contains(LowerChars, SubSeq(s, i, i)) \/ Contains(UpperChars, SubSeq(s, i, i))

AlphaTable == [s \in ModelStrings |-> IsAlphaOf(s)]

isalpha(s) == IF s \in ModelStrings THEN AlphaTable[s] ELSE IsAlphaOf(s)

\* sum(1 for x in seq if x in S)
CountIn(seq, S) == Len(SelectSeq(seq, LAMBDA x : x \in S))

(***************************************************************************)
(* Sentiment scores are exact rationals in lowest terms (Python's float    *)
(* quotient of two small integers, compared by value).                     *)
(***************************************************************************)
Abs(x) == IF x < 0 THEN -x ELSE x

Rat(n, d) == LET g == Gcd(Abs(n), d) IN [num |-> n \div g, den |-> d \div g]

Zero == [num |-> 0, den |-> 1]

(***************************************************************************)
(* ArticleProcessor.analyze_sentiment                                      *)
(***************************************************************************)
positive_words ==
    {"good", "great", "excellent", "positive", "amazing", "wonderful",
     "fantastic", "terrific", "outstanding", "superb", "brilliant",
     "success", "successful", "beneficial", "advantage", "innovative"}

negative_words ==
    {"bad", "terrible", "poor", "negative", "awful", "horrible",
     "disappointing", "failure", "failed", "problem", "disaster",
     "crisis", "dangerous", "threat", "risk", "concern"}

\* Mutant of analyze_sentiment: the difference is divided by the number of words.
analyze_sentiment_per_word(text) ==
    LET words == SelectSeq(word_tokenize(LowerText(text)), isalpha)
        pos_count == CountIn(words, positive_words)
        neg_count == CountIn(words, negative_words)
    IN IF pos_count + neg_count = 0 THEN Zero
       ELSE Rat(pos_count - neg_count, Len(words))

analyze_sentiment(text) ==
    LET tokens == word_tokenize(LowerText(text))
        words == SelectSeq(tokens, isalpha)
        pos_count == CountIn(words, positive_words)
        neg_count == CountIn(words, negative_words)
        total == pos_count + neg_count
    IN IF total = 0 THEN Zero
       ELSE Rat(pos_count - neg_count, total)

(***************************************************************************)
(* ArticleProcessor.categorize_article                                     *)
(***************************************************************************)
\* self.categories when the constructor is given none
DefaultCategories ==
    <<"technology", "business", "politics", "entertainment",
      "health", "science", "sports", "world", "general">>

\* _initialize_category_keywords: the dict's keys in insertion order, and its values
category_keywords_keys ==
    <<"technology", "business", "politics", "entertainment",
      "health", "science", "sports", "world", "general">>

category_keywords ==
    [c \in {"technology", "business", "politics", "entertainment", "health", "science", "sports", "world", "general"} |->
        IF c = "technology" THEN
            {"tech", "technology", "ai", "artificial", "intelligence", "software",
             "app", "application", "computer", "digital", "internet", "web",
             "cyber", "security", "data", "analytics", "cloud", "blockchain",
             "programming", "algorithm", "mobile", "smartphone", "device",
             "hardware", "robot", "automation", "startup", "innovation",
             "computing", "virtual", "augmented", "reality"}
        ELSE IF c = "business" THEN
            {"business", "company", "corporation", "market", "stock", "finance",
             "economy", "economic", "investment", "investor", "profit", "revenue",
             "startup", "entrepreneur", "ceo", "executive", "management",
             "strategy", "acquisition", "merger", "venture", "capital", "funding",
             "growth", "industry", "sector", "commercial", "trade", "banking",
             "financial"}
        ELSE IF c = "politics" THEN
            {"politics", "political", "government", "election", "campaign",
             "vote", "voter", "president", "congress", "senate", "house",
             "representative", "democrat", "republican", "liberal",
             "conservative", "policy", "law", "legislation", "regulation",
             "parliament", "minister", "cabinet", "leader", "party", "candidate",
             "bill", "diplomat", "foreign", "nation"}
        ELSE IF c = "entertainment" THEN
            {"entertainment", "movie", "film", "cinema", "actor", "actress",
             "star", "celebrity", "music", "song", "album", "concert", "perform",
             "singer", "band", "television", "tv", "show", "series", "episode",
             "streaming", "award", "festival", "director", "producer", "studio",
             "hollywood", "game", "gaming", "theater", "stage", "comedy", "drama"}
        ELSE IF c = "health" THEN
            {"health", "medical", "medicine", "doctor", "hospital", "patient",
             "disease", "condition", "treatment", "therapy", "drug", "research",
             "study", "scientist", "healthcare", "mental", "physical", "fitness",
             "exercise", "diet", "nutrition", "wellness", "healthy", "vaccine",
             "virus", "pandemic", "epidemic", "public", "emergency", "care"}
        ELSE IF c = "science" THEN
            {"science", "scientific", "research", "study", "discovery",
             "scientist", "experiment", "laboratory", "theory", "hypothesis",
             "physics", "chemistry", "biology", "astronomy", "space", "planet",
             "star", "galaxy", "universe", "climate", "environment", "energy",
             "renewable", "sustainable", "species", "evolution", "genetic", "dna",
             "molecule", "atom", "particle"}
        ELSE IF c = "sports" THEN
            {"sport", "sports", "game", "match", "player", "team", "coach",
             "league", "championship", "tournament", "competition", "athlete",
             "olympic", "medal", "football", "soccer", "baseball", "basketball",
             "tennis", "golf", "racing", "formula", "hockey", "rugby", "cricket",
             "boxing", "swimming", "track", "field", "fitness", "stadium", "fan",
             "victory", "defeat"}
        ELSE IF c = "world" THEN
            {"world", "international", "global", "foreign", "country", "nation",
             "war", "conflict", "peace", "military", "army", "troops", "treaty",
             "agreement", "diplomat", "embassy", "ambassador", "border",
             "refugee", "immigration", "trade", "sanction", "united", "nations",
             "europe", "asia", "africa", "america", "middle", "east", "crisis"}
        ELSE \* "general"
            {"news", "report", "update", "information", "event", "development",
             "situation", "issue", "matter", "topic", "story", "article",
             "coverage", "press", "media", "daily", "weekly", "monthly", "latest",
             "breaking", "current", "today", "yesterday", "tomorrow", "week",
             "month", "year"}]

\* The keys of a dict built from a list, in insertion order (a repeated key keeps its first place)
RECURSIVE DictKeys(_)
DictKeys(seq) ==
    IF seq = <<>> THEN <<>>
    ELSE LET init == DictKeys(SubSeq(seq, 1, Len(seq) - 1))
             last == seq[Len(seq)]
         IN IF last \in Range(init) THEN init ELSE Append(init, last)

\* category_scores[category] += 1 raises KeyError when the lexicon table has a
\* category that self.categories lacks and a keyword is in its lexicon
CategorizeRaises(categories, keywords) ==
    \E i \in 1..Len(keywords) : \E j \in 1..Len(category_keywords_keys) :
        /\ keywords[i] \in category_keywords[category_keywords_keys[j]]
        /\ category_keywords_keys[j] \notin Range(categories)

\* Mutant of AddKeyword: the inner loop stops at the first lexicon holding the keyword.
AddKeywordFirstOnly(category_scores, keyword) ==
    LET hits == {j \in 1..Len(category_keywords_keys) :
                    keyword \in category_keywords[category_keywords_keys[j]]}
    IN IF hits = {} THEN category_scores
       ELSE LET first == category_keywords_keys[CHOOSE j \in hits : \A k \in hits : j <= k]
            IN [category_scores EXCEPT ![first] = @ + 1]

\* One pass of the inner loop: for category, cat_keywords in self.category_keywords.items()
AddKeyword(category_scores, keyword) ==
    [c \in DOMAIN category_scores |->
        IF c \in Range(category_keywords_keys) /\ keyword \in category_keywords[c]
        THEN category_scores[c] + 1
        ELSE category_scores[c]]

\* The outer loop: for keyword in keywords
RECURSIVE ScoreKeywordsFrom(_, _)
ScoreKeywordsFrom(category_scores, keywords) ==
    IF keywords = <<>> THEN category_scores
    ELSE ScoreKeywordsFrom(AddKeyword(category_scores, Head(keywords)), Tail(keywords))

\* max(values, default=0)
MaxOf(S) == IF S = {} THEN 0 ELSE CHOOSE m \in S : \A x \in S : x <= m

\* max(category_scores.items(), key=lambda x: x[1])[0]: the first key, in the
\* dict's order, whose score is the greatest
FirstMax(keys, category_scores) ==
    LET best == MaxOf({category_scores[c] : c \in DOMAIN category_scores})
        i == CHOOSE k \in 1..Len(keys) :
                /\ category_scores[keys[k]] = best
                /\ \A l \in 1..(k - 1) : category_scores[keys[l]] # best
    IN keys[i]

KeyError == "KeyError"

\* Mutant of categorize_article: no fallback to "general" when no keyword matches.
categorize_article_no_fallback(categories, content, keywords) ==
    IF CategorizeRaises(categories, keywords) THEN KeyError
    ELSE FirstMax(DictKeys(categories),
                  ScoreKeywordsFrom([c \in Range(categories) |-> 0], keywords))

categorize_article(categories, content, keywords) ==
    LET keys == DictKeys(categories)
        zero == [c \in Range(categories) |-> 0]
    IN IF CategorizeRaises(categories, keywords) THEN KeyError
       ELSE LET category_scores == ScoreKeywordsFrom(zero, keywords)
            IN IF MaxOf({category_scores[c] : c \in DOMAIN category_scores}) = 0
               THEN "general"
               ELSE FirstMax(keys, category_scores)

(***************************************************************************)
(* A stable sort by descending key, as sorted(..., reverse=True): the      *)
(* indices 1..n ordered so that i comes before j when i's key is greater,  *)
(* or the keys are equal and i < j.  Greater[i][j] says i's key is         *)
(* strictly greater than j's.                                              *)
(***************************************************************************)
SortedDescending(n, Greater) ==
    LET before(i) == {j \in 1..n : Greater[j][i] \/ (~Greater[i][j] /\ j < i)}
    IN [k \in 1..n |-> CHOOSE i \in 1..n : Cardinality(before(i)) = k - 1]

\* sorted(S) for a set of integers
RECURSIVE SortedAscending(_)
SortedAscending(S) ==
    IF S = {} THEN <<>>
    ELSE LET m == CHOOSE x \in S : \A y \in S : x <= y
         IN <<m>> \o SortedAscending(S \ {m})

\* seq[:n] for n >= 0
Take(seq, n) == SubSeq(seq, 1, Min(n, Len(seq)))

(***************************************************************************)
(* ArticleProcessor.extract_keywords                                       *)
(***************************************************************************)
keyword_min_length == 3

keyword_max_count == 15

summarize_length == 3

\* stopwords.words('english'): the words of nltk's list that the model's texts use
stop_words ==
    {"i", "me", "my", "we", "our", "you", "he", "she", "it", "its", "they", "them",
     "this", "that", "these", "those", "am", "is", "are", "was", "were", "be", "been",
     "have", "has", "had", "do", "does", "did", "a", "an", "the", "and", "but", "if",
     "or", "as", "of", "at", "by", "for", "with", "about", "to", "from", "in", "out",
     "on", "off", "over", "under", "then", "here", "there", "all", "any", "more",
     "most", "some", "no", "nor", "not", "only", "own", "same", "so", "than", "too",
     "very", "can", "will", "just", "now"}

\* string.punctuation, before and after its backquote (a character no TLA+
\* string can hold, and no token of the model has)
punctuation_head == "!\"#$%&'()*+,-./:;<=>?@[\\]^_"

punctuation_tail == "{|}~"

\* token in string.punctuation: the token is a contiguous part of that string
InPunctuation(token) ==
    Contains(punctuation_head, token) \/ Contains(punctuation_tail, token)

\* str.isdigit(): at least one character, and digits only
IsDigitOf(s) ==
    /\ Len(s) > 0
    /\ \A i \in 1..Len(s) : Contains(Digits, SubSeq(s, i, i))

\* WordNetLemmatizer.lemmatize(token), as a noun: the plural forms of the
\* model's texts go to their singular, every other token to itself
LemmaOf(token) ==
    IF token \in {"startups", "games", "markets", "stars", "risks", "investors"}
    THEN SubSeq(token, 1, Len(token) - 1)
    ELSE token

\* the filter of extract_keywords, and the lemma of a token that passes it
KeepsToken(token) ==
    /\ token \notin stop_words
    /\ ~InPunctuation(token)
    /\ Len(token) >= keyword_min_length
    /\ ~IsDigitOf(token)

KeepsTable == [s \in ModelStrings |-> KeepsToken(s)]

Keeps(token) == IF token \in ModelStrings THEN KeepsTable[token] ELSE KeepsToken(token)

\* the lemmas of the tokens that pass the filter, in the text's order
filtered_tokens(text) ==
    LET tokens == word_tokenize(LowerText(text))
        kept == SelectSeq(tokens, Keeps)
    IN [i \in 1..Len(kept) |-> LemmaOf(kept[i])]

\* Counter(seq): the distinct elements in the order of their first occurrence, and their counts
Counter(seq) ==
    LET keys == DictKeys(seq)
    IN [keys |-> keys,
        count |-> [x \in Range(seq) |-> Cardinality({i \in 1..Len(seq) : seq[i] = x})]]

\* Mutant of most_common: keys of equal count come out in reverse insertion order.
most_common_ties_reversed(counter, n) ==
    LET m == Len(counter.keys)
        keys == [k \in 1..m |-> counter.keys[m + 1 - k]]
        order == SortedDescending(m,
                     [i \in 1..m |-> [j \in 1..m |->
                         counter.count[keys[i]] > counter.count[keys[j]]]])
    IN Take([k \in 1..m |-> keys[order[k]]], Max(n, 0))

\* Mutant of most_common: n is ignored.
most_common_all(counter, n) ==
    LET keys == counter.keys
        order == SortedDescending(Len(keys),
                     [i \in 1..Len(keys) |-> [j \in 1..Len(keys) |->
                         counter.count[keys[i]] > counter.count[keys[j]]]])
    IN [k \in 1..Len(keys) |-> keys[order[k]]]

\* Counter.most_common(n): by descending count, equal counts in insertion order
most_common(counter, n) ==
    LET keys == counter.keys
        order == SortedDescending(Len(keys),
                     [i \in 1..Len(keys) |-> [j \in 1..Len(keys) |->
                         counter.count[keys[i]] > counter.count[keys[j]]]])
    IN Take([k \in 1..Len(keys) |-> keys[order[k]]], Max(n, 0))

\* extract_keywords of a processor built with keyword_max_count = max_count
extract_keywords_capped(text, max_count) ==
    most_common(Counter(filtered_tokens(text)), max_count)

extract_keywords(text) == extract_keywords_capped(text, keyword_max_count)

(***************************************************************************)
(* text_utils.clean_text and text_utils.extract_keywords.  The model's     *)
(* texts hold no "<", so no HTML tag.                                      *)
(***************************************************************************)
\* re.sub(r'\s+', ' ', text): every run of whitespace becomes one space
RECURSIVE CollapseWhitespace(_)
CollapseWhitespace(text) ==
    IF text = <<>> THEN <<>>
    ELSE IF Head(text) \in Whitespace
         THEN IF Len(text) > 1 /\ text[2] \in Whitespace
              THEN CollapseWhitespace(Tail(text))
              ELSE <<" ">> \o CollapseWhitespace(Tail(text))
         ELSE <<Head(text)>> \o CollapseWhitespace(Tail(text))

\* text.strip(), on a text whose whitespace runs are single spaces
Strip(text) ==
    LET from == IF text # <<>> /\ Head(text) \in Whitespace THEN 2 ELSE 1
        to == IF Len(text) >= from /\ text[Len(text)] \in Whitespace
              THEN Len(text) - 1 ELSE Len(text)
    IN SubSeq(text, from, to)

clean_text(text) == Strip(CollapseWhitespace(text))

\* the filter of text_utils.extract_keywords, with min_length = 3
KeepsWord(word) ==
    /\ isalpha(word)
    /\ word \notin stop_words
    /\ Len(word) >= keyword_min_length

text_utils_extract_keywords(text, max_keywords) ==
    LET words == word_tokenize(LowerText(clean_text(text)))
        kept == SelectSeq(words, KeepsWord)
        filtered_words == [i \in 1..Len(kept) |-> LemmaOf(kept[i])]
    IN most_common(Counter(filtered_words), max_keywords)

(***************************************************************************)
(* ArticleProcessor.generate_summary                                       *)
(***************************************************************************)
SentenceEnd == {".", "!", "?"}

EndsSentence(lexeme) ==
    Len(lexeme) > 0 /\ SubSeq(lexeme, Len(lexeme), Len(lexeme)) \in SentenceEnd

\* where the pattern (?<=[.!?])\s+ matches: a run of whitespace right after . ! or ?
IsSplitStart(text, i) ==
    /\ text[i] \in Whitespace
    /\ i > 1
    /\ text[i - 1] \notin Whitespace
    /\ EndsSentence(text[i - 1])

RunEnd(text, i) ==
    CHOOSE j \in i..Len(text) :
        /\ \A k \in i..j : text[k] \in Whitespace
        /\ (j = Len(text) \/ text[j + 1] \notin Whitespace)

\* re.split(r'(?<=[.!?])\s+', text)
RECURSIVE SplitFrom(_, _, _)
SplitFrom(text, start, i) ==
    IF i > Len(text) THEN <<SubSeq(text, start, Len(text))>>
    ELSE IF IsSplitStart(text, i)
         THEN <<SubSeq(text, start, i - 1)>>
              \o SplitFrom(text, RunEnd(text, i) + 1, RunEnd(text, i) + 1)
         ELSE SplitFrom(text, start, i + 1)

split_sentences(text) == SplitFrom(text, 1, 1)

\* _calculate_word_frequencies
calculate_word_frequencies(text) ==
    LET words == word_tokenize(LowerText(text))
        filtered_words == SelectSeq(words, LAMBDA w : isalpha(w) /\ w \notin stop_words)
    IN Counter(filtered_words).count

\* sum(word_freq.get(word, 0) for word in words if word.isalpha())
RECURSIVE SumFreq(_, _)
SumFreq(word_freq, words) ==
    IF words = <<>> THEN 0
    ELSE (IF isalpha(Head(words)) /\ Head(words) \in DOMAIN word_freq
          THEN word_freq[Head(words)] ELSE 0)
         + SumFreq(word_freq, Tail(words))

\* Mutant of sentence_score: the sum is not divided by the number of tokens.
sentence_score_sum(word_freq, sentence) ==
    [num |-> SumFreq(word_freq, word_tokenize(LowerText(sentence))), den |-> 1]

\* scores[i]: the sentence's score as a fraction, 0 for a sentence with no token
sentence_score(word_freq, sentence) ==
    LET words == word_tokenize(LowerText(sentence))
    IN IF Len(words) > 0
       THEN [num |-> SumFreq(word_freq, words), den |-> Len(words)]
       ELSE Zero

\* ' '.join(parts)
RECURSIVE Join(_)
Join(parts) ==
    IF parts = <<>> THEN <<>>
    ELSE IF Len(parts) = 1 THEN parts[1]
    ELSE parts[1] \o <<" ">> \o Join(Tail(parts))

\* Mutant of top_indices_to: the indices stay in the order of their scores.
top_indices_ranked(text, length) ==
    LET sentences == split_sentences(text)
        word_freq == calculate_word_frequencies(text)
        scores == [i \in 1..Len(sentences) |-> sentence_score(word_freq, sentences[i])]
        ranked == SortedDescending(Len(sentences),
                      [i \in 1..Len(sentences) |-> [j \in 1..Len(sentences) |->
                          scores[i].num * scores[j].den > scores[j].num * scores[i].den]])
    IN Take(ranked, Max(length, 0))

\* the indices of the sentences of the summary, in the text's order, for a
\* processor built with summarize_length = length
top_indices_to(text, length) ==
    LET sentences == split_sentences(text)
        word_freq == calculate_word_frequencies(text)
        scores == [i \in 1..Len(sentences) |-> sentence_score(word_freq, sentences[i])]
        ranked == SortedDescending(Len(sentences),
                      [i \in 1..Len(sentences) |-> [j \in 1..Len(sentences) |->
                          scores[i].num * scores[j].den > scores[j].num * scores[i].den]])
    IN SortedAscending(Range(Take(ranked, Max(length, 0))))

top_indices(text) == top_indices_to(text, summarize_length)

\* the sentences at the indices, joined
Summary(sentences, top) == Join([k \in 1..Len(top) |-> sentences[top[k]]])

\* Mutant of generate_summary_to: a short text is split and joined again.
generate_summary_joined(text, length) ==
    LET sentences == split_sentences(text)
    IN IF Len(sentences) = 0 THEN <<>>
       ELSE IF Len(sentences) <= length THEN Join(sentences)
       ELSE Summary(sentences, top_indices_to(text, length))

\* generate_summary of a processor built with summarize_length = length
generate_summary_to(text, length) ==
    LET sentences == split_sentences(text)
    IN IF Len(sentences) = 0 THEN <<>>
       ELSE IF Len(sentences) <= length THEN text
       ELSE Summary(sentences, top_indices_to(text, length))

generate_summary(text) == generate_summary_to(text, summarize_length)

(***************************************************************************)
(* Articles and readers.                                                   *)
(***************************************************************************)
\* the value None of an article's summary before it is summarized
None == <<"<None>">>

EmptyDict == [x \in {} |-> 0]

\* RSSFetcher._parse_entry: an article as fetched, with the feed's category
NewArticle(id, source, content, category) ==
    [id |-> id, title |-> id, source |-> source, content |-> content,
     category |-> category, keywords |-> <<>>, summary |-> None,
     sentiment_score |-> Zero, relevance_scores |-> EmptyDict]

\* Mutant of add_user_relevance: a score of zero is not stored.
add_user_relevance_nonzero(article, user_id, score) ==
    IF score = 0 THEN article
    ELSE [article EXCEPT !.relevance_scores =
             [u \in DOMAIN article.relevance_scores \cup {user_id} |->
                 IF u = user_id THEN score ELSE article.relevance_scores[u]]]

\* Mutant of add_user_relevance: the map is replaced by one with the reader's entry only.
add_user_relevance_replacing(article, user_id, score) ==
    [article EXCEPT !.relevance_scores = [u \in {user_id} |-> score]]

\* Article.add_user_relevance
add_user_relevance(article, user_id, score) ==
    [article EXCEPT !.relevance_scores =
        [u \in DOMAIN article.relevance_scores \cup {user_id} |->
            IF u = user_id THEN score ELSE article.relevance_scores[u]]]

(***************************************************************************)
(* ArticleProcessor.process_articles.  The stages run in order on one      *)
(* article and each writes its field; a stage that raises leaves the       *)
(* fields of the later stages as they were.  Only categorize_article can   *)
(* raise on a text (KeyError).                                             *)
(***************************************************************************)
\* a categories argument of the constructor that lacks categories of the lexicon table
CustomCategories == <<"technology", "business", "general">>

Stages(categories, content) ==
    LET keywords == extract_keywords(content)
    IN [keywords |-> keywords,
        category |-> categorize_article(categories, content, keywords),
        sentiment |-> analyze_sentiment(content),
        summary |-> generate_summary(content)]

\* the stages' values on the model's texts, computed once
StagesTable ==
    [categories \in {DefaultCategories, CustomCategories} |->
        [content \in ArticleTexts |-> Stages(categories, content)]]

\* the stages' values for an article's content
StagesOf(categories, content) ==
    IF categories \in DOMAIN StagesTable /\ content \in ArticleTexts
    THEN StagesTable[categories][content]
    ELSE Stages(categories, content)

\* Mutant of WriteStages: the keywords are appended to those the article has.
WriteStagesAppending(article, staged) ==
    IF staged.category = KeyError
    THEN [ok |-> FALSE,
          article |-> [article EXCEPT !.keywords = article.keywords \o staged.keywords]]
    ELSE [ok |-> TRUE,
          article |-> [article EXCEPT !.keywords = article.keywords \o staged.keywords,
                                      !.category = staged.category,
                                      !.sentiment_score = staged.sentiment,
                                      !.summary = staged.summary]]

\* Mutant of WriteStages: the relevance map is emptied when the fields are written.
WriteStagesResetting(article, staged) ==
    IF staged.category = KeyError
    THEN [ok |-> FALSE, article |-> [article EXCEPT !.keywords = staged.keywords]]
    ELSE [ok |-> TRUE,
          article |-> [article EXCEPT !.keywords = staged.keywords,
                                      !.category = staged.category,
                                      !.sentiment_score = staged.sentiment,
                                      !.summary = staged.summary,
                                      !.relevance_scores = EmptyDict]]

\* the assignments to the article's fields, up to the stage that raises
WriteStages(article, staged) ==
    IF staged.category = KeyError
    THEN [ok |-> FALSE, article |-> [article EXCEPT !.keywords = staged.keywords]]
    ELSE [ok |-> TRUE,
          article |-> [article EXCEPT !.keywords = staged.keywords,
                                      !.category = staged.category,
                                      !.sentiment_score = staged.sentiment,
                                      !.summary = staged.summary]]

ProcessOne(categories, article) ==
    WriteStages(article, StagesOf(categories, article.content))

\* the articles as processed, and the indices of those appended to processed_articles
Processed(done) ==
    [articles |-> [i \in 1..Len(done) |-> done[i].article],
     returned |-> SelectSeq([i \in 1..Len(done) |-> i], LAMBDA i : done[i].ok)]

\* The articles after process_articles, and the indices of those it returns.
\* With more than one article each is processed in its own try block, after
\* the vectorizer's fit_transform or, when that raised, in the fallback loop;
\* a single article is processed outside any inner try block and again in the
\* fallback loop when a stage raised.  The stages are functions of the
\* content, so every path leaves the same fields.
process_articles(categories, arts) ==
    Processed([i \in 1..Len(arts) |-> ProcessOne(categories, arts[i])])

(***************************************************************************)
(* ArticleProcessor.calculate_relevance_for_user, on the articles at the   *)
(* indices of list.                                                        *)
(***************************************************************************)
\* Mutant of calculate_relevance_for_user: the score replaces the whole map.
calculate_relevance_replacing(arts, list, user) ==
    [i \in 1..Len(arts) |->
        IF i \in Range(list)
        THEN [arts[i] EXCEPT !.relevance_scores =
                 [u \in {user.id} |->
                     matches_article(user, arts[i].keywords, arts[i].source, arts[i].category)]]
        ELSE arts[i]]

calculate_relevance_for_user(arts, list, user) ==
    [i \in 1..Len(arts) |->
        IF i \in Range(list)
        THEN add_user_relevance(arts[i], user.id,
                 matches_article(user, arts[i].keywords, arts[i].source, arts[i].category))
        ELSE arts[i]]

(***************************************************************************)
(* NewsletterGenerator.generate_newsletter and _generate_markdown.         *)
(* Articles are named by their indices in the list passed in.              *)
(***************************************************************************)
\* a.relevance_scores.get(user.id, 0)
RelevanceOf(article, user_id) ==
    IF user_id \in DOMAIN article.relevance_scores THEN article.relevance_scores[user_id] ELSE 0

\* Mutant of SortByRelevance: articles of equal relevance come out in reverse order.
SortByRelevanceTiesReversed(arts, list, user_id) ==
    LET n == Len(list)
        reversed == [k \in 1..n |-> list[n + 1 - k]]
        order == SortedDescending(n,
                     [i \in 1..n |-> [j \in 1..n |->
                         RelevanceOf(arts[reversed[i]], user_id)
                            > RelevanceOf(arts[reversed[j]], user_id)]])
    IN [k \in 1..n |-> reversed[order[k]]]

\* sorted(list, key=relevance, reverse=True)
SortByRelevance(arts, list, user_id) ==
    LET order == SortedDescending(Len(list),
                     [i \in 1..Len(list) |-> [j \in 1..Len(list) |->
                         RelevanceOf(arts[list[i]], user_id)
                            > RelevanceOf(arts[list[j]], user_id)]])
    IN [k \in 1..Len(list) |-> list[order[k]]]

\* relevant_articles, sorted_articles, selected_articles
SelectArticles(arts, user_id, max_articles) ==
    LET relevant_articles ==
            SelectSeq([i \in 1..Len(arts) |-> i],
                      LAMBDA i : user_id \in DOMAIN arts[i].relevance_scores)
        sorted_articles == SortByRelevance(arts, relevant_articles, user_id)
    IN Take(sorted_articles, max_articles)

\* Mutant of GroupByCategory: a category's group is put first when it is created.
RECURSIVE GroupByCategoryNewFirst(_, _, _)
GroupByCategoryNewFirst(arts, selected, groups) ==
    IF selected = <<>> THEN groups
    ELSE LET a == Head(selected)
             c == arts[a].category
         IN GroupByCategoryNewFirst(arts, Tail(selected),
                IF \E g \in 1..Len(groups) : groups[g].category = c
                THEN [g \in 1..Len(groups) |->
                         IF groups[g].category = c
                         THEN [groups[g] EXCEPT !.articles = Append(@, a)]
                         ELSE groups[g]]
                ELSE <<[category |-> c, articles |-> <<a>>]>> \o groups)

\* categorized_articles: a dict from category to list, in insertion order
RECURSIVE GroupByCategory(_, _, _)
GroupByCategory(arts, selected, groups) ==
    IF selected = <<>> THEN groups
    ELSE LET a == Head(selected)
             c == arts[a].category
         IN GroupByCategory(arts, Tail(selected),
                IF \E g \in 1..Len(groups) : groups[g].category = c
                THEN [g \in 1..Len(groups) |->
                         IF groups[g].category = c
                         THEN [groups[g] EXCEPT !.articles = Append(@, a)]
                         ELSE groups[g]]
                ELSE Append(groups, [category |-> c, articles |-> <<a>>]))

\* all_articles of _generate_markdown: the groups' articles, group after group
RECURSIVE Flatten(_)
Flatten(groups) ==
    IF groups = <<>> THEN <<>>
    ELSE Head(groups).articles \o Flatten(Tail(groups))

top_stories == 3

\* top_articles of _generate_markdown
TopArticles(arts, categorized, user_id) ==
    Take(SortByRelevance(arts, Flatten(categorized), user_id), top_stories)

\* the default of generate_newsletter's max_articles (None)
MaxArticlesNone == -1

\* if max_articles is None: max_articles = user.max_articles_per_newsletter
DigestSize(user, max_articles) ==
    IF max_articles = MaxArticlesNone THEN user.max_articles_per_newsletter ELSE max_articles

\* a in top_articles: Article is a dataclass, compared field by field
InTopArticles(arts, a, top) == \E k \in 1..Len(top) : arts[top[k]] = arts[a]

\* the articles of a group that are not top articles
NotInTop(arts, group, top) ==
    SelectSeq(group, LAMBDA a : ~InTopArticles(arts, a, top))

\* the groups that are not skipped: not empty and not all in the top section
Emitted(arts, categorized, top) ==
    SelectSeq(categorized,
              LAMBDA g : ~(g.articles = <<>>
                           \/ \A a \in Range(g.articles) : InTopArticles(arts, a, top)))

\* the sections with every article of their groups
AllOfGroups(groups) ==
    [g \in 1..Len(groups) |->
        [category |-> groups[g].category, articles |-> groups[g].articles]]

\* Mutant of CategorySections: the top articles are rendered in their sections too.
CategorySectionsAll(arts, categorized, top) ==
    AllOfGroups(Emitted(arts, categorized, top))

\* the sections with the articles of their groups that are not top articles
WithoutTop(arts, groups, top) ==
    [g \in 1..Len(groups) |->
        [category |-> groups[g].category,
         articles |-> NotInTop(arts, groups[g].articles, top)]]

\* the category sections of _generate_markdown, in the order they are written
CategorySections(arts, categorized, top) ==
    WithoutTop(arts, Emitted(arts, categorized, top), top)

\* _generate_markdown: the top stories and the category sections
generate_markdown(arts, user_id, categorized) ==
    CategorySections(arts, categorized, TopArticles(arts, categorized, user_id))

generate_newsletter(arts, user, max_articles) ==
    LET selected == SelectArticles(arts, user.id, DigestSize(user, max_articles))
        categorized == GroupByCategory(arts, selected, <<>>)
    IN [user |-> user.id,
        max_articles |-> max_articles,
        selected |-> selected,
        categorized |-> categorized,
        top |-> TopArticles(arts, categorized, user.id),
        sections |-> generate_markdown(arts, user.id, categorized)]

(***************************************************************************)
(* The pipeline's state when only a pure function is called.               *)
(***************************************************************************)
NoNewsletter ==
    [user |-> "", max_articles |-> 0, selected |-> <<>>, categorized |-> <<>>,
     top |-> <<>>, sections |-> <<>>]

NoCall == [fn |-> "none"]

PipelineIdle ==
    /\ articles = <<>>
    /\ users = <<>>
    /\ self_categories = DefaultCategories
    /\ processed = <<>>
    /\ newsletter = NoNewsletter
    /\ scored = {}
    /\ overwrote = FALSE

(***************************************************************************)
(* SpecScore: one call of User.matches_article on bounded inputs.          *)
(***************************************************************************)
ScoreUsers ==
    [interests : SeqsUpTo(ScoreInterests, MaxInterests),
     excluded_keywords : SeqsUpTo(ScoreExcluded, MaxExcluded),
     preferred_sources : {<<>>, <<"TechCrunch">>},
     preferred_categories : {<<>>, <<"technology">>}]

ScoreInit ==
    /\ PipelineIdle
    /\ pc = "call"
    /\ ret = 0
    /\ call \in [fn : {"matches_article"},
                 user : ScoreUsers,
                 article_keywords : SeqsUpTo(ScoreKeywords, MaxKeywords),
                 source : ScoreSources,
                 category : ScoreCategories]

MatchesArticle ==
    /\ pc = "call"
    /\ call.fn = "matches_article"
    /\ ret' = matches_article(call.user, call.article_keywords, call.source, call.category)
    /\ pc' = "done"
    /\ UNCHANGED <<call, pipelineVars>>

ScoreNext == MatchesArticle

SpecScore == ScoreInit /\ [][ScoreNext]_vars

ScoreDone == pc = "done" /\ call.fn = "matches_article"

(***************************************************************************)
(* C1: for every keyword list, source, category and reader profile, also   *)
(* one with no interests or no excluded keywords, matches_article returns  *)
(* a score s with 0.0 <= s <= 1.0.  (A division by zero would stop TLC     *)
(* with an evaluation error in MatchesArticle.)                            *)
(***************************************************************************)
C1_ScoreInRange == ScoreDone => (0 <= ret /\ ret <= One)

\* C1's case: a reader with no interests and no exclusions is scored on a
\* non-empty keyword list and gets a positive score.
C1_Witness ==
    /\ ScoreDone
    /\ call.user.interests = <<>>
    /\ call.user.excluded_keywords = <<>>
    /\ Len(call.article_keywords) = MaxKeywords
    /\ ret > 0

(***************************************************************************)
(* The reference formula of the relevance score, in integers: with         *)
(* n = |interests| (1 when there are none) and m the number of keywords    *)
(* matching an interest, 2n * rawSum = 2n*[source] + 2n*[category]         *)
(* + 3*min(m, n) - n*[some keyword matches an excluded term], and the      *)
(* score is clamp(rawSum / 4, 0, 1), that is clamp(2n*rawSum, 0, 8n)/(8n). *)
(***************************************************************************)
RECURSIVE RefCount(_, _)
RefCount(kws, terms) ==
    IF kws = <<>> THEN 0
    ELSE (IF \E t \in Range(terms) : Contains(Lower(Head(kws)), Lower(t)) THEN 1 ELSE 0)
         + RefCount(Tail(kws), terms)

RefRaw2n(user, kws, source, category) ==
    LET n == IF user.interests = <<>> THEN 1 ELSE Len(user.interests)
        m == RefCount(kws, user.interests)
    IN (IF \E i \in 1..Len(user.preferred_sources) : user.preferred_sources[i] = source
        THEN 2 * n ELSE 0)
       + (IF \E i \in 1..Len(user.preferred_categories) : user.preferred_categories[i] = category
          THEN 2 * n ELSE 0)
       + 3 * (IF m < n THEN m ELSE n)
       - (IF RefCount(kws, user.excluded_keywords) >= 1 THEN n ELSE 0)

RefClamp(x, lo, hi) == IF x < lo THEN lo ELSE IF x > hi THEN hi ELSE x

SpecExample ==
    [fn |-> "matches_article",
     user |-> [interests |-> <<"AI", "machine learning">>,
               excluded_keywords |-> <<>>,
               preferred_sources |-> <<"TechCrunch">>,
               preferred_categories |-> <<"technology">>],
     article_keywords |-> <<"ai", "startup", "funding">>,
     source |-> "TechCrunch",
     category |-> "technology"]

(***************************************************************************)
(* C2: matches_article equals clamp(rawSum / 4.0, 0.0, 1.0) with rawSum    *)
(* the source bonus, plus the category bonus, plus                         *)
(* min(m / |interests|, 1.0) * 1.5, minus the excluded-keyword penalty; on *)
(* the spec's example the score is 0.6875.                                 *)
(***************************************************************************)
C2_ReferenceFormula ==
    ScoreDone =>
        LET n == IF call.user.interests = <<>> THEN 1 ELSE Len(call.user.interests)
        IN /\ ret * 8 * n
                = One * RefClamp(RefRaw2n(call.user, call.article_keywords,
                                          call.source, call.category), 0, 8 * n)
           /\ (call = SpecExample => ret * 10000 = 6875 * One)

\* C2's case: the spec's example has been scored (raw 2.75, one of the two
\* interests matched by the keyword "ai").
C2_Witness ==
    /\ ScoreDone
    /\ call = SpecExample
    /\ RefRaw2n(call.user, call.article_keywords, call.source, call.category) * 100 = 275 * 4
    /\ ret * 16 = 11 * One

RemoveAt(s, i) == SubSeq(s, 1, i - 1) \o SubSeq(s, i + 1, Len(s))

MatchesSome(keyword, terms) == \E t \in Range(terms) : Contains(Lower(keyword), Lower(t))

ExcludedOnly(user, kws) ==
    {i \in 1..Len(kws) : MatchesSome(kws[i], user.excluded_keywords)
                         /\ ~MatchesSome(kws[i], user.interests)}

(***************************************************************************)
(* C3: the excluded-keyword penalty is capped.  The score is the           *)
(* normalized raw sum less 0.5 when at least one keyword matches an        *)
(* excluded term and less 0 otherwise; and a document with two or more     *)
(* matching keywords scores exactly as the same document without one of    *)
(* them (one that matches no interest, so the interest matches are fixed). *)
(***************************************************************************)
C3_PenaltyCapped ==
    ScoreDone =>
        LET u == call.user
            kws == call.article_keywords
            hit == \E i \in 1..Len(kws) : MatchesSome(kws[i], u.excluded_keywords)
            positive == SourceScore(u, call.source) + CategoryScore(u, call.category)
                        + InterestScore(u, kws)
        IN /\ ret = Normalize(positive - (IF hit THEN One \div 2 ELSE 0))
           /\ \A i \in ExcludedOnly(u, kws) :
                 (\E j \in 1..Len(kws) : j # i /\ MatchesSome(kws[j], u.excluded_keywords))
                 => matches_article(u, RemoveAt(kws, i), call.source, call.category) = ret

\* C3's case: two keywords match excluded terms, neither matches an interest,
\* and the score is positive (so a second penalty would have shown).
C3_Witness ==
    /\ ScoreDone
    /\ Cardinality(ExcludedOnly(call.user, call.article_keywords)) >= 2
    /\ ret > 0
    /\ ret < One \div 2

Punctuation == {".", "!", "?", ",", "..."}

IsWordLexeme(lexeme) == lexeme \notin Whitespace /\ lexeme \notin Punctuation

WellFormedText(text) ==
    \A i \in 1..(Len(text) - 1) :
        /\ ~(IsWordLexeme(text[i]) /\ IsWordLexeme(text[i + 1]))
        /\ (text[i] \in Punctuation => ~IsWordLexeme(text[i + 1]))

SentimentTexts == {t \in SeqsUpTo(SentimentLexemes, MaxTextLen) : WellFormedText(t)}

SentimentInit ==
    /\ PipelineIdle
    /\ pc = "call"
    /\ ret = Zero
    /\ call \in [fn : {"analyze_sentiment"}, text : SentimentTexts]

AnalyzeSentiment ==
    /\ pc = "call"
    /\ call.fn = "analyze_sentiment"
    /\ ret' = analyze_sentiment(call.text)
    /\ pc' = "done"
    /\ UNCHANGED <<call, pipelineVars>>

SentimentNext == AnalyzeSentiment

SpecSentiment == SentimentInit /\ [][SentimentNext]_vars

SentimentDone == pc = "done" /\ call.fn = "analyze_sentiment"

\* the lexemes of a text whose lower-case form is in S
LexemesIn(text, S) == {i \in 1..Len(text) : Lower(text[i]) \in S}

(***************************************************************************)
(* C9: analyze_sentiment returns 0.0 when the text has no positive and no  *)
(* negative word (so for the empty text), and otherwise                    *)
(* (positive_count - negative_count) / (positive_count + negative_count);  *)
(* the result is within [-1.0, 1.0] and a further non-lexicon word in the  *)
(* text does not change it.                                                *)
(***************************************************************************)
C9_SentimentFormula ==
    SentimentDone =>
        LET p == Cardinality(LexemesIn(call.text, positive_words))
            n == Cardinality(LexemesIn(call.text, negative_words))
        IN /\ (p + n = 0 => ret = Zero)
           /\ (p + n > 0 => ret.den > 0 /\ ret.num * (p + n) = (p - n) * ret.den)
           /\ -ret.den <= ret.num /\ ret.num <= ret.den
           /\ analyze_sentiment(<<"news", " ">> \o call.text) = ret
           /\ (call.text = <<>> => ret = Zero)

\* C9's case: a text with one positive and two negative words, one of them in
\* upper case, has been scored -1/3.
C9_Witness ==
    /\ SentimentDone
    /\ LexemesIn(call.text, positive_words) # {}
    /\ \E i \in LexemesIn(call.text, negative_words) : call.text[i] = "RISK"
    /\ ret = [num |-> -1, den |-> 3]

\* C9's other case: a text that has words, none of them in a lexicon, scores 0.0.
C9_WitnessNeutral ==
    /\ SentimentDone
    /\ \E i \in 1..Len(call.text) : call.text[i] = "news"
    /\ LexemesIn(call.text, positive_words \cup negative_words) = {}
    /\ ret = Zero

(***************************************************************************)
(* SpecCategorize: one call of categorize_article, under the default       *)
(* configuration, on a bounded keyword list.                               *)
(***************************************************************************)
CategorizeInit ==
    /\ PipelineIdle
    /\ pc = "call"
    /\ ret = ""
    /\ call \in [fn : {"categorize_article"},
                 categories : {DefaultCategories},
                 keywords : SeqsUpTo(CategorizeKeywords, MaxKeywords)]

CategorizeArticle ==
    /\ pc = "call"
    /\ call.fn = "categorize_article"
    /\ ret' = categorize_article(call.categories, <<>>, call.keywords)
    /\ pc' = "done"
    /\ UNCHANGED <<call, pipelineVars>>

CategorizeNext == CategorizeArticle

SpecCategorize == CategorizeInit /\ [][CategorizeNext]_vars

CategorizeDone == pc = "done" /\ call.fn = "categorize_article"

\* the number of the keywords that are, verbatim, in the category's lexicon
LexiconScore(keywords, category) ==
    Cardinality({i \in 1..Len(keywords) : keywords[i] \in category_keywords[category]})

(***************************************************************************)
(* C10: categorize_article returns a category whose score (the number of   *)
(* the document's keywords that are verbatim in the category's lexicon, a  *)
(* keyword of several lexicons counting for each) is maximal, and          *)
(* "general" when every category's score is zero, as for no keywords.      *)
(***************************************************************************)
C10_MaximalCategory ==
    CategorizeDone =>
        LET cats == Range(call.categories)
        IN IF \A c \in cats : LexiconScore(call.keywords, c) = 0
           THEN ret = "general"
           ELSE /\ ret \in cats
                /\ \A c \in cats : LexiconScore(call.keywords, c) <= LexiconScore(call.keywords, ret)

\* C10's case: a keyword of two lexicons ("startup": technology and business)
\* and a keyword of one of them ("funding") make business the only maximum,
\* although technology comes first in the table.
C10_Witness ==
    /\ CategorizeDone
    /\ ret = "business"
    /\ LexiconScore(call.keywords, "technology") = 1
    /\ LexiconScore(call.keywords, "business") = 2

\* C10's other case: every category scores zero and the result is "general".
C10_WitnessGeneral ==
    /\ CategorizeDone
    /\ call.keywords # <<>>
    /\ \A c \in Range(call.categories) : LexiconScore(call.keywords, c) = 0
    /\ ret = "general"

(***************************************************************************)
(* SpecKeywords: one call of ArticleProcessor.extract_keywords, on a       *)
(* processor built with keyword_max_count = cap, or of                     *)
(* text_utils.extract_keywords with max_keywords = cap.                    *)
(***************************************************************************)
KeywordTexts == {t \in SeqsUpTo(KeywordLexemes, MaxTextLen) : WellFormedText(t)}

KeywordsInit ==
    /\ PipelineIdle
    /\ pc = "call"
    /\ ret = <<>>
    /\ call \in [fn : {"extract_keywords", "text_utils.extract_keywords"},
                 text : KeywordTexts,
                 cap : 0..MaxCap]

ExtractKeywords ==
    /\ pc = "call"
    /\ call.fn = "extract_keywords"
    /\ ret' = extract_keywords_capped(call.text, call.cap)
    /\ pc' = "done"
    /\ UNCHANGED <<call, pipelineVars>>

TextUtilsExtractKeywords ==
    /\ pc = "call"
    /\ call.fn = "text_utils.extract_keywords"
    /\ ret' = text_utils_extract_keywords(call.text, call.cap)
    /\ pc' = "done"
    /\ UNCHANGED <<call, pipelineVars>>

KeywordsNext == ExtractKeywords \/ TextUtilsExtractKeywords

SpecKeywords == KeywordsInit /\ [][KeywordsNext]_vars

KeywordsDone == pc = "done" /\ call.fn \in {"extract_keywords", "text_utils.extract_keywords"}

\* C13: the list either extract_keywords returns is no longer than the cap,
\* for every text and every cap K >= 0.
C13_KeywordCap ==
    KeywordsDone => Len(ret) <= call.cap

\* C13's case: the text has the keywords "star" and "news", the cap is 1, and
\* text_utils.extract_keywords returns one keyword.
C13_Witness ==
    /\ KeywordsDone
    /\ call.fn = "text_utils.extract_keywords"
    /\ {"star", "news"} \subseteq Range(LowerText(call.text))
    /\ call.cap = 1
    /\ Len(ret) = 1

\* C13's other case: the same for ArticleProcessor.extract_keywords.
C13_WitnessProcessor ==
    /\ KeywordsDone
    /\ call.fn = "extract_keywords"
    /\ {"star", "news"} \subseteq Range(LowerText(call.text))
    /\ call.cap = 1
    /\ Len(ret) = 1

\* a token made of punctuation characters only
IsPunctuationOnly(token) ==
    /\ Len(token) > 0
    /\ \A i \in 1..Len(token) : InPunctuation(SubSeq(token, i, i))

ProcessorDone == pc = "done" /\ call.fn = "extract_keywords"

\* C14, as stated: the list ArticleProcessor.extract_keywords returns holds
\* no stopword, no token made of punctuation only ("..." included), no token
\* made of digits only, and no keyword twice.
C14_KeywordsFiltered ==
    ProcessorDone =>
        /\ \A k \in 1..Len(ret) :
              /\ ret[k] \notin stop_words
              /\ ~IsPunctuationOnly(ret[k])
              /\ ~IsDigitOf(ret[k])
        /\ \A k, l \in 1..Len(ret) : k # l => ret[k] # ret[l]

\* C14's failing case: the text holds the token "...", which is returned as a keyword.
C14_Witness ==
    /\ ProcessorDone
    /\ call.text = <<"star", " ", "...", " ", "news">>
    /\ call.cap = 2
    /\ ret = <<"star", "...">>

\* C14 but for punctuation: no stopword, no number and no keyword twice.
C14_RestHolds ==
    ProcessorDone =>
        /\ \A k \in 1..Len(ret) : ret[k] \notin stop_words /\ ~IsDigitOf(ret[k])
        /\ \A k, l \in 1..Len(ret) : k # l => ret[k] # ret[l]

\* the lemma of the text's i-th lexeme, lowercased
LemmaAt(i) == LemmaOf(Lower(call.text[i]))

\* how often a lemma occurs in the text, and where it occurs first
Occurrences(w) == Cardinality({i \in 1..Len(call.text) : LemmaAt(i) = w})

FirstPlace(w) ==
    CHOOSE i \in 1..Len(call.text) :
        LemmaAt(i) = w /\ \A j \in 1..(i - 1) : LemmaAt(j) # w

\* v comes before w in the ranking: it occurs more often, or as often and first
RanksBefore(v, w) ==
    \/ Occurrences(v) > Occurrences(w)
    \/ (Occurrences(v) = Occurrences(w) /\ FirstPlace(v) < FirstPlace(w))

\* the lemmas that pass the filter
Candidates == Range(filtered_tokens(call.text))

\* C15: the keyword list is in descending order of the lemmas' occurrences
\* in the text, lemmas occurring equally often in the order of their first
\* occurrence; it holds min(cap, number of lemmas) keywords, and every lemma
\* left out comes after every keyword in that order.
C15_KeywordRanking ==
    ProcessorDone =>
        /\ Range(ret) \subseteq Candidates
        /\ Len(ret) = Min(call.cap, Cardinality(Candidates))
        /\ \A k, l \in 1..Len(ret) : k < l => RanksBefore(ret[k], ret[l])
        /\ \A w \in Candidates \ Range(ret) :
              \A k \in 1..Len(ret) : RanksBefore(ret[k], w)

\* C15's case: "star" occurs twice (once as "Stars") after "news", which
\* occurs once and first; the cap of 1 keeps "star" only.
C15_Witness ==
    /\ ProcessorDone
    /\ call.text = <<"news", " ", "star", " ", "Stars">>
    /\ call.cap = 1
    /\ ret = <<"star">>

\* C15's other case: two lemmas occur once each and keep the text's order.
C15_WitnessTie ==
    /\ ProcessorDone
    /\ call.text = <<"news", " ", "...", " ", "star">>
    /\ call.cap = 2
    /\ ret = <<"news", "...">>

(***************************************************************************)
(* SpecSummary: one call of generate_summary on a processor built with     *)
(* summarize_length = target.  A text is up to MaxSentences sentences      *)
(* with a run of whitespace between two of them.                           *)
(***************************************************************************)
\* sentences[1] seps[1] sentences[2] ... sentences[n]
RECURSIVE Interleave(_, _)
Interleave(sentences, seps) ==
    IF sentences = <<>> THEN <<>>
    ELSE IF Len(sentences) = 1 THEN sentences[1]
    ELSE sentences[1] \o seps[1] \o Interleave(Tail(sentences), Tail(seps))

SummaryTexts ==
    UNION {{Interleave(ss, seps) : seps \in [1..(Len(ss) - 1) -> Separators]} :
           ss \in SeqsUpTo(SummarySentences, MaxSentences)}

SummaryInit ==
    /\ PipelineIdle
    /\ pc = "call"
    /\ ret = <<>>
    /\ call \in [fn : {"generate_summary"}, text : SummaryTexts, target : 0..MaxTarget]

GenerateSummary ==
    /\ pc = "call"
    /\ call.fn = "generate_summary"
    /\ ret' = generate_summary_to(call.text, call.target)
    /\ pc' = "done"
    /\ UNCHANGED <<call, pipelineVars>>

SummaryNext == GenerateSummary

SpecSummary == SummaryInit /\ [][SummaryNext]_vars

SummaryDone == pc = "done" /\ call.fn = "generate_summary"

\* the sentences of the text: it is cut at every run of whitespace that
\* follows '.', '!' or '?'
SentencesOf(text) == split_sentences(text)

\* the number of sentences: one more than the places where whitespace begins
\* right after '.', '!' or '?'
SentenceCount(text) ==
    1 + Cardinality({i \in 2..Len(text) :
                        /\ text[i] \in Whitespace
                        /\ text[i - 1] \notin Whitespace
                        /\ SubSeq(text[i - 1], Len(text[i - 1]), Len(text[i - 1]))
                              \in {".", "!", "?"}})

\* C16: a text with no more sentences than the target is returned as it is,
\* lexeme for lexeme, whitespace included.
C16_ShortCircuit ==
    (SummaryDone /\ SentenceCount(call.text) <= call.target) => ret = call.text

\* C16's case: two sentences with a newline and a space between them and a
\* target of 2; the text comes back with its newline.
C16_Witness ==
    /\ SummaryDone
    /\ call.target = 2
    /\ call.text = <<"Good", " ", "news", "!", "\n", " ", "news", ".">>
    /\ SentenceCount(call.text) = 2
    /\ ret = call.text

\* the sets of K sentence indices of the text
IndexSets(K) == {S \in SUBSET (1..Len(SentencesOf(call.text))) : Cardinality(S) = K}

\* the sentences of the indices S, in the text's order, joined by single spaces
JoinedInOrder(S) ==
    LET idx == SortedAscending(S)
    IN Join([k \in 1..Len(idx) |-> SentencesOf(call.text)[idx[k]]])

\* C17: the summary of a text with more sentences than the target is made of
\* target sentences of the text, in the order they have in the text, with
\* one space between two of them.
C17_SummaryOrder ==
    (SummaryDone /\ SentenceCount(call.text) > call.target) =>
        \E S \in IndexSets(call.target) : ret = JoinedInOrder(S)

\* C17's case: the third sentence has the highest score, the first the next;
\* the summary of two sentences has the first before the third, and a single
\* space where the text has two sentences and a newline.
C17_Witness ==
    /\ SummaryDone
    /\ call.target = 2
    /\ call.text = <<"Stars", " ", "win", ".", " ", "the", " ", "news", "?", "\n", " ", "news", ".">>
    /\ ret = <<"Stars", " ", "win", ".", " ", "news", ".">>

\* how often a word occurs among the text's tokens, lowercased, when it is
\* alphabetic and no stopword
DocFrequency(w) ==
    IF isalpha(w) /\ w \notin stop_words
    THEN Cardinality({i \in 1..Len(call.text) : Lower(call.text[i]) = w})
    ELSE 0

RECURSIVE SumDocFrequency(_)
SumDocFrequency(words) ==
    IF words = <<>> THEN 0
    ELSE DocFrequency(Head(words)) + SumDocFrequency(Tail(words))

\* the score of the i-th sentence: the frequencies of its tokens, summed,
\* over the number of its tokens
SentenceScoreOf(i) ==
    LET words == word_tokenize(LowerText(SentencesOf(call.text)[i]))
    IN IF words = <<>> THEN Zero
       ELSE [num |-> SumDocFrequency(words), den |-> Len(words)]

ScoresHigher(j, i) ==
    SentenceScoreOf(j).num * SentenceScoreOf(i).den
        > SentenceScoreOf(i).num * SentenceScoreOf(j).den

\* C18: the summary of a text with more than K sentences (K the target) is
\* made of exactly K distinct sentences, and no sentence left out has a
\* strictly higher score than one of them.
C18_TopSentences ==
    (SummaryDone /\ SentenceCount(call.text) > call.target) =>
        \E S \in IndexSets(call.target) :
            /\ ret = JoinedInOrder(S)
            /\ \A i \in S : \A j \in 1..Len(SentencesOf(call.text)) :
                  j \notin S => ~ScoresHigher(j, i)

\* C18's case: three sentences whose frequency sums are equal; the second,
\* of two tokens, has the highest score and is the summary of one sentence.
C18_Witness ==
    /\ SummaryDone
    /\ call.target = 1
    /\ call.text = <<"Stars", " ", "win", ".", " ", "news", ".", " ", "the", " ", "news", "?">>
    /\ ScoresHigher(2, 1) /\ ScoresHigher(2, 3)
    /\ ret = <<"news", ".">>

(***************************************************************************)
(* SpecConfigured: one call of categorize_article on a processor built     *)
(* with some categories argument.                                          *)
(***************************************************************************)
\* a categories argument that holds every category of the lexicon table, in another order
ReorderedCategories ==
    <<"business", "technology", "politics", "entertainment",
      "health", "science", "sports", "world", "general">>

ConfiguredCategories == {DefaultCategories, CustomCategories, ReorderedCategories}

ConfiguredInit ==
    /\ PipelineIdle
    /\ call \in [fn : {"categorize_article"},
                 categories : ConfiguredCategories,
                 keywords : SeqsUpTo(CategorizeKeywords, MaxKeywords)]
    /\ ret = 0
    /\ pc = "call"

SpecConfigured == ConfiguredInit /\ [][CategorizeNext]_vars

\* the place of a category in the lexicon table's definition order
TablePlace(category) ==
    CHOOSE j \in 1..Len(category_keywords_keys) : category_keywords_keys[j] = category

\* the configured categories that have a lexicon
Scored == Range(call.categories) \cap Range(category_keywords_keys)

\* the categories with the greatest score, when it is not zero
Winners ==
    {c \in Scored :
        /\ LexiconScore(call.keywords, c) > 0
        /\ \A d \in Scored : LexiconScore(call.keywords, d) <= LexiconScore(call.keywords, c)}

\* C11, as stated: when the greatest score is not zero, categorize_article
\* returns the category of that score that comes first in the lexicon table's
\* definition order (technology, business, politics, ...).
C11_TieBreakTableOrder ==
    (CategorizeDone /\ ret # KeyError /\ Winners # {}) =>
        /\ ret \in Winners
        /\ \A c \in Winners : TablePlace(ret) <= TablePlace(c)

\* C11's failing case: the processor's categories begin with business, the
\* only keyword is "startup", of the technology and business lexicons, and
\* the result is business.
C11_Witness ==
    /\ CategorizeDone
    /\ call.categories = ReorderedCategories
    /\ call.keywords = <<"startup">>
    /\ Winners = {"technology", "business"}
    /\ ret = "business"

\* C11 with the default categories: "startup" alone gives technology.
C11_WitnessDefault ==
    /\ CategorizeDone
    /\ call.categories = DefaultCategories
    /\ call.keywords = <<"startup">>
    /\ ret = "technology"

\* the fixed closed set of categories, "general" included
ClosedCategories == Range(DefaultCategories)

\* C12, as stated: for every keyword list and every configured categories
\* list, categorize_article returns a member of the closed category set and
\* does not fail.
C12_CategoryInClosedSet ==
    CategorizeDone => (ret # KeyError /\ ret \in ClosedCategories)

\* C12's failing case: the processor's categories are technology, business
\* and general, a keyword ("game") is in the lexicon of entertainment and
\* sports, and the call raises KeyError.
C12_Witness ==
    /\ CategorizeDone
    /\ call.categories = CustomCategories
    /\ call.keywords = <<"game">>
    /\ ret = KeyError

(***************************************************************************)
(* Spec: the pipeline.  Articles are fetched, then process_articles,       *)
(* calculate_relevance_for_user and generate_newsletter are called in any  *)
(* order, for any reader.                                                  *)
(***************************************************************************)
UserIds == {"u1", "u2"}

\* the readers: one with preferences, one with none and the default digest size
Readers ==
    [u \in UserIds |->
        IF u = "u1"
        THEN [id |-> "u1",
              interests |-> <<"startup", "news">>,
              excluded_keywords |-> <<"STAR">>,
              preferred_sources |-> <<"TechCrunch">>,
              preferred_categories |-> <<"business", "entertainment">>,
              max_articles_per_newsletter |-> 2]
        ELSE [id |-> "u2",
              interests |-> <<>>,
              excluded_keywords |-> <<>>,
              preferred_sources |-> <<>>,
              preferred_categories |-> <<>>,
              max_articles_per_newsletter |-> 10]]

\* what a feed gives: source, content and the feed's category
FeedEntries ==
    {[source |-> "TechCrunch", content |-> StartupText, category |-> "technology"],
     [source |-> "BBC News", content |-> GameText, category |-> "sports"]}

ArticleIds == <<"a1", "a2", "a3", "a4", "a5", "a6", "a7", "a8">>

FetchedArticles ==
    {[i \in 1..Len(entries) |->
        NewArticle(ArticleIds[i], entries[i].source, entries[i].content, entries[i].category)] :
     entries \in SeqsUpTo(FeedEntries, MaxArticles)}

Init ==
    /\ articles \in FetchedArticles
    /\ users = Readers
    /\ self_categories \in {DefaultCategories, CustomCategories}
    /\ processed = <<>>
    /\ newsletter = NoNewsletter
    /\ scored = {}
    /\ overwrote = FALSE
    /\ call = NoCall
    /\ ret = 0
    /\ pc = "pipeline"

\* processed_articles = article_processor.process_articles(articles)
ProcessArticles ==
    /\ pc = "pipeline"
    /\ \E result \in {IF articles = <<>>
                       THEN [articles |-> articles, returned |-> <<>>]
                       ELSE process_articles(self_categories, articles)} :
          /\ articles' = result.articles
          /\ processed' = result.returned
    /\ newsletter' = NoNewsletter
    /\ overwrote' = FALSE
    /\ UNCHANGED <<users, self_categories, scored, call, ret, pc>>

\* article_processor.calculate_relevance_for_user(list, user), list being the
\* fetched articles or the articles process_articles returned
CalculateRelevance(u) ==
    /\ pc = "pipeline"
    /\ newsletter' = NoNewsletter
    /\ UNCHANGED <<users, self_categories, processed, call, ret, pc>>
    /\ \E list \in {[i \in 1..Len(articles) |-> i], processed} :
          /\ articles' = calculate_relevance_for_user(articles, list, users[u])
          /\ scored' = scored \cup {<<i, u>> : i \in Range(list)}
          /\ overwrote' = \E i \in Range(list) :
                              /\ u \in DOMAIN articles[i].relevance_scores
                              /\ articles[i].relevance_scores[u] # articles'[i].relevance_scores[u]

\* newsletter_generator.generate_newsletter(user, articles, max_articles),
\* max_articles being None when not given or a size >= 0; the newsletter's
\* text and the files it is saved to are not modelled
GenerateNewsletter(u) ==
    /\ pc = "pipeline"
    /\ \E max_articles \in {MaxArticlesNone} \cup 0..MaxLimit :
          newsletter' = generate_newsletter(articles, users[u], max_articles)
    /\ overwrote' = FALSE
    /\ UNCHANGED <<articles, users, self_categories, processed, scored, call, ret, pc>>

Next ==
    \/ ProcessArticles
    \/ \E u \in UserIds : CalculateRelevance(u)
    \/ \E u \in UserIds : GenerateNewsletter(u)

Spec == Init /\ [][Next]_vars

\* a newsletter has just been generated, from the articles as they are
Generated == newsletter.user # ""

AllArticles == 1..Len(articles)

\* the score matches_article gives the reader for the article as it is
FreshScore(u, i) ==
    matches_article(users[u], articles[i].keywords, articles[i].source, articles[i].category)

\* C4: a call of calculate_relevance_for_user for reader u writes, for every
\* article of its list, the score matches_article computes into the article's
\* relevance map under u's id, whatever was there for u before; the entries
\* and keys of every other reader, and the articles outside the list, are as
\* before; and the same call made again on the result changes nothing.
C4_RelevanceWritten ==
    [][\A u \in UserIds :
          CalculateRelevance(u) =>
             \E list \in {[i \in AllArticles |-> i], processed} :
                /\ \A i \in Range(list) :
                      /\ u \in DOMAIN articles'[i].relevance_scores
                      /\ articles'[i].relevance_scores[u] = FreshScore(u, i)
                /\ \A i \in AllArticles : \A v \in UserIds \ {u} :
                      /\ v \in DOMAIN articles'[i].relevance_scores
                            <=> v \in DOMAIN articles[i].relevance_scores
                      /\ v \in DOMAIN articles[i].relevance_scores
                            => articles'[i].relevance_scores[v] = articles[i].relevance_scores[v]
                /\ \A i \in AllArticles \ Range(list) : articles'[i] = articles[i]
                /\ calculate_relevance_for_user(articles', list, users'[u]) = articles'
      ]_vars

\* C4's case: the last call replaced a reader's earlier score of an article by
\* a different one (the article was processed in between), and the article
\* holds the other reader's score too.
C4_Witness ==
    /\ overwrote
    /\ \E i \in AllArticles :
          /\ DOMAIN articles[i].relevance_scores = UserIds
          /\ articles[i].keywords # <<>>
          /\ \A u \in UserIds : articles[i].relevance_scores[u] = FreshScore(u, i)

\* C5: every relevance map is empty at the start; in every state its keys are
\* exactly the readers scored against the article so far (a reader not scored
\* has no entry, one scored 0 has an entry); and no step removes a key.
C5_KeysAreScoredReaders ==
    /\ \A i \in AllArticles : DOMAIN articles[i].relevance_scores = {}
    /\ [](\A i \in AllArticles :
             DOMAIN articles[i].relevance_scores = {u \in UserIds : <<i, u>> \in scored})
    /\ [][/\ Len(articles') = Len(articles)
          /\ \A i \in AllArticles :
                DOMAIN articles[i].relevance_scores \subseteq DOMAIN articles'[i].relevance_scores
         ]_vars

\* C5's case: after processing, an article holds both readers' scores, one of
\* them 0, while another article, which process_articles did not return,
\* holds a score for one reader and no entry for the other.
C5_Witness ==
    /\ processed # <<>>
    /\ \E i, j \in AllArticles :
          /\ DOMAIN articles[i].relevance_scores = UserIds
          /\ articles[i].relevance_scores["u2"] = 0
          /\ j \notin Range(processed)
          /\ DOMAIN articles[j].relevance_scores = {"u1"}

\* the articles holding a relevance entry for the newsletter's reader
Relevant == {i \in AllArticles : newsletter.user \in DOMAIN articles[i].relevance_scores}

\* the newsletter's digest size limit
Limit ==
    IF newsletter.max_articles = MaxArticlesNone
    THEN users[newsletter.user].max_articles_per_newsletter
    ELSE newsletter.max_articles

Score(i) == articles[i].relevance_scores[newsletter.user]

\* article i comes before article j in the order of the selection: by
\* descending relevance, and in the order of the input when the scores are equal
Precedes(i, j) == Score(i) > Score(j) \/ (Score(i) = Score(j) /\ i < j)

\* C6: the selection of a newsletter holds only articles with a relevance
\* entry for the reader, each once; it is in descending order of relevance
\* with equal scores in input order; it holds min(limit, number of relevant
\* articles) articles, never more than the limit, the limit being
\* max_articles_per_newsletter when max_articles is not given; and every
\* relevant article left out comes after every selected one in that order.
C6_Selection ==
    Generated =>
        LET selected == newsletter.selected
        IN /\ Range(selected) \subseteq Relevant
           /\ Len(selected) <= Limit
           /\ Len(selected) = Min(Limit, Cardinality(Relevant))
           /\ \A k, l \in 1..Len(selected) : k < l => Precedes(selected[k], selected[l])
           /\ \A i \in Relevant \ Range(selected) :
                 \A k \in 1..Len(selected) : Precedes(selected[k], i)

\* C6's case: max_articles is not given, more articles are relevant than the
\* reader's limit allows, the two selected articles have equal scores, and a
\* relevant article that comes earlier in the input is left out for its
\* lower score.
C6_Witness ==
    /\ Generated
    /\ newsletter.max_articles = MaxArticlesNone
    /\ Cardinality(Relevant) > Limit
    /\ Len(newsletter.selected) = 2
    /\ Score(newsletter.selected[1]) = Score(newsletter.selected[2])
    /\ \E i \in Relevant : i < newsletter.selected[1] /\ Score(i) < Score(newsletter.selected[1])

\* C6's other case: an article without an entry for the reader comes between
\* two selected articles in the input.
C6_WitnessUnscored ==
    /\ Generated
    /\ Len(newsletter.selected) = 2
    /\ \E i \in AllArticles \ Relevant :
          newsletter.selected[1] < i /\ i < newsletter.selected[2]

\* C7, as stated: the top stories are the first min(3, n) articles of the
\* selection.  Stated here of the articles only, whatever their order within
\* the top stories, which is the least the claim says.
C7_TopStoriesLeadSelection ==
    Generated => Range(newsletter.top) = Range(Take(newsletter.selected, top_stories))

\* C7's failing case: four selected articles of equal relevance whose
\* categories alternate, so that the groups' order is not the selection's.
C7_Witness ==
    /\ Generated
    /\ Len(newsletter.selected) = 4
    /\ \A k \in 1..4 : Score(newsletter.selected[k]) = 0
    /\ newsletter.selected = <<1, 2, 3, 4>>
    /\ newsletter.top = <<1, 4, 2>>

\* the place of article i in the selection
PlaceOf(i) == CHOOSE k \in 1..Len(newsletter.selected) : newsletter.selected[k] = i

\* C8: the groups have distinct categories and none is empty; every selected
\* article is in the group of its own category and in no other, once; within
\* a group the articles are in the order of the selection; and the groups are
\* in the order in which their categories first appear in the selection.
C8_Partition ==
    Generated =>
        LET groups == newsletter.categorized
            selected == newsletter.selected
        IN /\ \A g, h \in 1..Len(groups) : g # h => groups[g].category # groups[h].category
           /\ \A g \in 1..Len(groups) :
                 /\ groups[g].articles # <<>>
                 /\ \A k \in 1..Len(groups[g].articles) :
                       /\ groups[g].articles[k] \in Range(selected)
                       /\ articles[groups[g].articles[k]].category = groups[g].category
                 /\ \A k, l \in 1..Len(groups[g].articles) :
                       k < l => PlaceOf(groups[g].articles[k]) < PlaceOf(groups[g].articles[l])
           /\ \A i \in Range(selected) :
                 \E g \in 1..Len(groups) : i \in Range(groups[g].articles)
           /\ Len(Flatten(groups)) = Len(selected)
           /\ \A g, h \in 1..Len(groups) :
                 g < h => PlaceOf(groups[g].articles[1]) < PlaceOf(groups[h].articles[1])

\* C8's case: two groups, the first holding two articles that another
\* category's article separates in the selection.
C8_Witness ==
    /\ Generated
    /\ Len(newsletter.categorized) = 2
    /\ Len(newsletter.categorized[1].articles) = 2
    /\ PlaceOf(newsletter.categorized[1].articles[2])
          > PlaceOf(newsletter.categorized[2].articles[1])

\* how often article i is written in the top section and in the category sections
TimesInTop(i) == Cardinality({k \in 1..Len(newsletter.top) : newsletter.top[k] = i})

TimesInSections(i) ==
    Cardinality({<<s, k>> \in (1..Len(newsletter.sections)) \X (1..MaxArticles + 1) :
                    /\ k <= Len(newsletter.sections[s].articles)
                    /\ newsletter.sections[s].articles[k] = i})

\* C27: every selected article is written exactly once in the newsletter, in
\* the top stories or in the section of its category, and no other article
\* is written; a category has a section only if one of its selected articles
\* is not a top story, and no section is empty.
C27_RenderedOnce ==
    Generated =>
        /\ \A i \in AllArticles :
              TimesInTop(i) + TimesInSections(i) = (IF i \in Range(newsletter.selected) THEN 1 ELSE 0)
        /\ \A s \in 1..Len(newsletter.sections) :
              /\ newsletter.sections[s].articles # <<>>
              /\ \A a \in Range(newsletter.sections[s].articles) :
                    /\ articles[a].category = newsletter.sections[s].category
                    /\ a \notin Range(newsletter.top)
        /\ \A s, t \in 1..Len(newsletter.sections) :
              newsletter.sections[s].category = newsletter.sections[t].category => s = t

\* C27's case: four articles selected, three of them top stories, two of
\* which belong to the category of the fourth; that category's section has
\* the fourth article only and the other category has no section.
C27_Witness ==
    /\ Generated
    /\ Len(newsletter.selected) = 4
    /\ Len(newsletter.top) = 3
    /\ Len(newsletter.categorized) = 2
    /\ Len(newsletter.sections) = 1
    /\ Len(newsletter.sections[1].articles) = 1
    /\ \E g \in 1..2 :
          /\ newsletter.categorized[g].category = newsletter.sections[1].category
          /\ Len(newsletter.categorized[g].articles) >= 2

\* the fields of article i that no stage derives are as before the step
InputFieldsKept(i) ==
    /\ articles'[i].id = articles[i].id
    /\ articles'[i].title = articles[i].title
    /\ articles'[i].source = articles[i].source
    /\ articles'[i].content = articles[i].content

\* the fields process_articles writes are as before the step
DerivedFieldsKept(i) ==
    /\ articles'[i].keywords = articles[i].keywords
    /\ articles'[i].category = articles[i].category
    /\ articles'[i].sentiment_score = articles[i].sentiment_score
    /\ articles'[i].summary = articles[i].summary

\* C23: process_articles changes no id, title, source, content or relevance
\* map; calculate_relevance_for_user for reader u changes nothing but the
\* entry of u in the relevance maps; generate_newsletter changes no article
\* and no reader; and no call changes the number of articles.  The steps of
\* generate_newsletter are those that leave a newsletter: the other calls
\* leave none.
C23_FrameEffects ==
    [][/\ ProcessArticles =>
             /\ Len(articles') = Len(articles)
             /\ users' = users
             /\ \A i \in AllArticles :
                   /\ InputFieldsKept(i)
                   /\ articles'[i].relevance_scores = articles[i].relevance_scores
       /\ \A u \in UserIds :
             CalculateRelevance(u) =>
                /\ Len(articles') = Len(articles)
                /\ users' = users
                /\ \A i \in AllArticles :
                      /\ InputFieldsKept(i)
                      /\ DerivedFieldsKept(i)
                      /\ DOMAIN articles'[i].relevance_scores \ {u}
                            = DOMAIN articles[i].relevance_scores \ {u}
                      /\ \A v \in DOMAIN articles[i].relevance_scores \ {u} :
                            articles'[i].relevance_scores[v] = articles[i].relevance_scores[v]
       /\ Generated' => (articles' = articles /\ users' = users)
      ]_vars

\* C23's case: process_articles has run on articles scored before for both
\* readers; the articles have their keywords and the scores of before, which
\* are no longer the scores matches_article gives.
C23_Witness ==
    /\ ~Generated
    /\ processed # <<>>
    /\ \E i \in Range(processed) :
          /\ articles[i].keywords # <<>>
          /\ DOMAIN articles[i].relevance_scores = UserIds
          /\ articles[i].relevance_scores["u1"] # FreshScore("u1", i)

(***************************************************************************)
(* SpecBatch: process_data run on a fetched batch, once and again on the   *)
(* same articles.  The batch may hold articles with an empty text.         *)
(***************************************************************************)
\* what a feed gives, an entry without text included
BatchEntries ==
    FeedEntries \cup {[source |-> "Reuters", content |-> EmptyText, category |-> "politics"]}

\* main.process_data returns before processing when no article was fetched
BatchArticles ==
    {[i \in 1..Len(entries) |->
        NewArticle(ArticleIds[i], entries[i].source, entries[i].content, entries[i].category)] :
     entries \in SeqsUpTo(BatchEntries, MaxArticles) \ {<<>>}}

\* the readers in the order of the users' list
UserOrder == <<"u1", "u2">>

BatchInit ==
    /\ articles \in BatchArticles
    /\ users = Readers
    /\ self_categories \in {DefaultCategories, CustomCategories}
    /\ processed = <<>>
    /\ newsletter = NoNewsletter
    /\ scored = {}
    /\ overwrote = FALSE
    /\ call = [fn |-> "process_data", runs |-> 0]
    /\ ret = 0
    /\ pc = "process_data"

\* for user in users: calculate_relevance_for_user(processed_articles, user)
RECURSIVE ScoreReaders(_, _, _)
ScoreReaders(arts, list, ids) ==
    IF ids = <<>> THEN arts
    ELSE ScoreReaders(calculate_relevance_for_user(arts, list, Readers[Head(ids)]),
                      list, Tail(ids))

\* the articles of arts at the indices of list, as the list process_articles returns
Returned(arts, list) == [k \in 1..Len(list) |-> arts[list[k]]]

\* process_data on the fetched articles: process_articles, then for every
\* reader calculate_relevance_for_user and generate_newsletter on the
\* articles returned; ret keeps the articles as they were before the run
ProcessData ==
    /\ pc = "process_data"
    /\ call.runs < MaxRuns
    /\ \E result \in {process_articles(self_categories, articles)} :
          /\ processed' = result.returned
          /\ scored' = scored \cup {<<i, u>> : i \in Range(result.returned), u \in UserIds}
          /\ \E after \in {ScoreReaders(result.articles, result.returned, UserOrder)} :
                /\ articles' = after
                /\ newsletter' = generate_newsletter(Returned(after, result.returned),
                                                     users[UserOrder[Len(UserOrder)]],
                                                     MaxArticlesNone)
    /\ ret' = articles
    /\ call' = [call EXCEPT !.runs = @ + 1]
    /\ overwrote' = FALSE
    /\ UNCHANGED <<users, self_categories, pc>>

BatchNext == ProcessData

SpecBatch == BatchInit /\ [][BatchNext]_vars

\* process_data has run n times or more
RanTimes(n) == pc = "process_data" /\ call.runs >= n

\* C19: for an article whose text is empty extract_keywords gives the empty
\* list, categorize_article gives "general", analyze_sentiment gives 0 and
\* generate_summary gives the empty string, whatever the categories and the
\* target of the summary, and process_articles returns the article with
\* these values written.
C19_EmptyTextDefaults ==
    /\ extract_keywords(EmptyText) = <<>>
    /\ \A categories \in ConfiguredCategories :
          categorize_article(categories, EmptyText, extract_keywords(EmptyText)) = "general"
    /\ analyze_sentiment(EmptyText) = Zero
    /\ \A length \in 0..MaxTarget : generate_summary_to(EmptyText, length) = <<>>
    /\ RanTimes(1) =>
          \A i \in 1..Len(articles) :
              articles[i].content = EmptyText =>
                  /\ i \in Range(processed)
                  /\ articles[i].keywords = <<>>
                  /\ articles[i].category = "general"
                  /\ articles[i].sentiment_score = Zero
                  /\ articles[i].summary = <<>>

\* C19's case: a batch of an article whose categorization raises and an
\* article without text fetched from a politics feed; only the second is
\* returned, with the defaults written.
C19_Witness ==
    /\ RanTimes(1)
    /\ self_categories = CustomCategories
    /\ Len(articles) = 2
    /\ articles[1].content = GameText
    /\ articles[2].content = EmptyText
    /\ ret[2].category = "politics" /\ ret[2].summary = None
    /\ processed = <<2>>
    /\ articles[2].category = "general"
    /\ articles[2].summary = <<>>

\* C20: after process_data has run a second time on the same articles, every
\* article has the keywords, category, sentiment, summary and relevance
\* values it had after the first run.
C20_Idempotent ==
    RanTimes(2) =>
        /\ Len(articles) = Len(ret)
        /\ \A i \in 1..Len(articles) :
              /\ articles[i].keywords = ret[i].keywords
              /\ articles[i].category = ret[i].category
              /\ articles[i].sentiment_score = ret[i].sentiment_score
              /\ articles[i].summary = ret[i].summary
              /\ articles[i].relevance_scores = ret[i].relevance_scores

\* C20's case: the second run on an article that has keywords, a category
\* other than the feed's, a summary and a relevance above zero for a reader.
C20_Witness ==
    /\ RanTimes(2)
    /\ Len(articles) >= 1
    /\ articles[1].content = StartupText
    /\ articles[1].keywords # <<>>
    /\ articles[1].category # "technology"
    /\ articles[1].summary # None
    /\ DOMAIN articles[1].relevance_scores = UserIds
    /\ articles[1].relevance_scores["u1"] > 0
    /\ articles[1] = ret[1]


(***************************************************************************)
(* SpecProcess: one call of process_articles, path by path.  The           *)
(* vectorizer's fit_transform raises or not on a batch of several          *)
(* articles; every write of a derived field is counted.                    *)
(***************************************************************************)
FieldNames == {"keywords", "category", "sentiment_score", "summary"}

NoWrites == [f \in FieldNames |-> 0]

\* the entry after the assignments of one pass through the stages
Attempted(entry, written) ==
    [article |-> written.article,
     ok |-> written.ok,
     writes |-> [f \in FieldNames |->
                    entry.writes[f] + (IF f = "keywords" \/ written.ok THEN 1 ELSE 0)]]

\* the stages on one article, as in the body of a try block: the keywords
\* are assigned, then categorize_article raises or the other fields are
\* assigned
Attempt(categories, entry) ==
    Attempted(entry, ProcessOne(categories, entry.article))

\* the indices of the entries whose stages did not raise
Appended(entries) ==
    SelectSeq([i \in 1..Len(entries) |-> i], LAMBDA i : entries[i].ok)

\* a loop over the articles with a try block around each:
\* processed_articles.append(article) when no stage raised
Looped(run, attempted) ==
    [entries |-> attempted,
     processed_articles |-> run.processed_articles \o Appended(attempted),
     raised |-> FALSE]

\* the articles up to the first whose stage raises
StoppedAt(run, attempted, stop) ==
    [entries |-> [i \in 1..Len(attempted) |->
                     IF i <= stop THEN attempted[i] ELSE run.entries[i]],
     processed_articles |-> run.processed_articles \o
         SelectSeq([i \in 1..Len(attempted) |-> i], LAMBDA i : i < stop),
     raised |-> FALSE]

FirstFailing(attempted) ==
    IF \A i \in 1..Len(attempted) : attempted[i].ok THEN Len(attempted) + 1
    ELSE CHOOSE i \in 1..Len(attempted) :
            ~attempted[i].ok /\ \A j \in 1..(i - 1) : attempted[j].ok

Stopped(run, attempted) == StoppedAt(run, attempted, FirstFailing(attempted))

\* Mutant of MainLoop: the loop stops at the first article whose stage raises.
MainLoopAborting(categories, run) ==
    Stopped(run, [i \in 1..Len(run.entries) |-> Attempt(categories, run.entries[i])])

\* for i, article in enumerate(articles): try ... except Exception
MainLoop(categories, run) ==
    Looped(run, [i \in 1..Len(run.entries) |-> Attempt(categories, run.entries[i])])

\* the single article's entry appended when no stage raised, else the
\* exception leaves the try block of the batch
Single(run, attempted) ==
    [entries |-> <<attempted>>,
     processed_articles |-> IF attempted.ok THEN run.processed_articles \o <<1>>
                            ELSE run.processed_articles,
     raised |-> ~attempted.ok]

\* the single article, processed outside any inner try block
SingleBranch(categories, run) ==
    Single(run, Attempt(categories, run.entries[1]))

\* every article appended
AllAppended(run, attempted) ==
    [entries |-> attempted,
     processed_articles |-> run.processed_articles \o [i \in 1..Len(attempted) |-> i],
     raised |-> FALSE]

\* Mutant of FallbackLoop: an article is appended whether its stages raised or not.
FallbackLoopUnguarded(categories, run) ==
    AllAppended(run, [i \in 1..Len(run.entries) |-> Attempt(categories, run.entries[i])])

\* except Exception: for article in articles: try ... except Exception
FallbackLoop(categories, run) ==
    Looped(run, [i \in 1..Len(run.entries) |-> Attempt(categories, run.entries[i])])

\* the try block of the batch: fit_transform and the loop, or the single article
TryBlock(categories, run, fit_raises) ==
    IF Len(run.entries) > 1
    THEN IF fit_raises THEN [run EXCEPT !.raised = TRUE] ELSE MainLoop(categories, run)
    ELSE SingleBranch(categories, run)

\* the handler of the batch's try block
Handler(categories, tried) ==
    IF tried.raised THEN FallbackLoop(categories, tried) ELSE tried

\* process_articles on arts: the entries hold the articles as left, the
\* number of writes of each field; processed_articles the indices of the
\* articles returned; raised whether an exception leaves process_articles
process_articles_run(categories, arts, fit_raises) ==
    IF arts = <<>>
    THEN [entries |-> <<>>, processed_articles |-> <<>>, raised |-> FALSE]
    ELSE Handler(categories,
                 TryBlock(categories,
                          [entries |-> [i \in 1..Len(arts) |->
                                           [article |-> arts[i], ok |-> FALSE, writes |-> NoWrites]],
                           processed_articles |-> <<>>,
                           raised |-> FALSE],
                          fit_raises))

ProcessInit ==
    /\ articles \in BatchArticles \cup {<<>>}
    /\ users = Readers
    /\ self_categories \in {DefaultCategories, CustomCategories}
    /\ processed = <<>>
    /\ newsletter = NoNewsletter
    /\ scored = {}
    /\ overwrote = FALSE
    /\ call = [fn |-> "process_articles", done |-> FALSE]
    /\ ret = 0
    /\ pc = "process_articles"

\* one call of process_articles; ret keeps the articles passed in, the
\* outcome of fit_transform, the writes counted and the exception raised
ProcessRun ==
    /\ pc = "process_articles"
    /\ ~call.done
    /\ \E fit_raises \in IF Len(articles) > 1 THEN BOOLEAN ELSE {FALSE} :
          \E run \in {process_articles_run(self_categories, articles, fit_raises)} :
             /\ articles' = [i \in 1..Len(run.entries) |-> run.entries[i].article]
             /\ processed' = run.processed_articles
             /\ ret' = [before |-> articles,
                        fit_raises |-> fit_raises,
                        writes |-> [i \in 1..Len(run.entries) |-> run.entries[i].writes],
                        raised |-> run.raised]
    /\ call' = [call EXCEPT !.done = TRUE]
    /\ UNCHANGED <<users, self_categories, newsletter, scored, overwrote, pc>>

ProcessNext == ProcessRun

SpecProcess == ProcessInit /\ [][ProcessNext]_vars

ProcessDone == pc = "process_articles" /\ call.done

\* a stage raises on the i-th article passed in
StageFails(i) ==
    CategorizeRaises(self_categories, extract_keywords(ret.before[i].content))

\* C21: process_articles never raises; an article with a failing stage is not
\* returned and the fields of the failing stage and of the later stages are
\* left as they were; every other article of the batch is returned with all
\* four fields written, whatever the size of the batch.
C21_FailureIsolated ==
    ProcessDone =>
        /\ ~ret.raised
        /\ Len(articles) = Len(ret.before)
        /\ \A i \in 1..Len(articles) :
              IF StageFails(i)
              THEN /\ i \notin Range(processed)
                   /\ articles[i].category = ret.before[i].category
                   /\ articles[i].sentiment_score = ret.before[i].sentiment_score
                   /\ articles[i].summary = ret.before[i].summary
              ELSE /\ i \in Range(processed)
                   /\ articles[i].keywords = extract_keywords(articles[i].content)
                   /\ articles[i].category =
                         categorize_article(self_categories, articles[i].content,
                                            articles[i].keywords)
                   /\ articles[i].sentiment_score = analyze_sentiment(articles[i].content)
                   /\ articles[i].summary = generate_summary(articles[i].content)

\* C21's case: a batch of three where the stages of the second raise after
\* fit_transform succeeded; the first and the third are returned.
C21_Witness ==
    /\ ProcessDone
    /\ Len(articles) = 3
    /\ ~ret.fit_raises
    /\ StageFails(2) /\ ~StageFails(1) /\ ~StageFails(3)
    /\ processed = <<1, 3>>
    /\ articles[3].summary # None

\* C21's case with a batch of exactly one article whose stage raises.
C21_WitnessSingle ==
    /\ ProcessDone
    /\ Len(articles) = 1
    /\ StageFails(1)
    /\ processed = <<>>
    /\ articles[1].summary = None

\* C22: in one run of process_articles every derived field of every article
\* is written at most once, and exactly once when the article is returned.
C22_WrittenOnce ==
    ProcessDone =>
        \A i \in 1..Len(articles) : \A f \in FieldNames :
            /\ ret.writes[i][f] <= 1
            /\ i \in Range(processed) => ret.writes[i][f] = 1

\* C22's case: the stages of the single article of a batch raise, in the
\* branch of the single article and again in the fallback loop.
C22_Witness ==
    /\ ProcessDone
    /\ Len(articles) = 1
    /\ StageFails(1)
    /\ ret.writes[1]["keywords"] = 2

\* C22 without the single article whose stage raises: the fields are written
\* once or not at all.
C22_RestHolds ==
    (ProcessDone /\ ~(Len(articles) = 1 /\ StageFails(1))) =>
        \A i \in 1..Len(articles) : \A f \in FieldNames :
            /\ ret.writes[i][f] <= 1
            /\ i \in Range(processed) => ret.writes[i][f] = 1


\* C26: the list process_articles returns holds articles of the input only,
\* each at most once and in the input's order, and it is the same list with
\* the same fields whether fit_transform succeeds or raises, and each article
\* returned has the fields it gets as the single article of a batch.
C26_ReturnedSubsequence ==
    ProcessDone =>
        /\ \A k \in 1..Len(processed) : processed[k] \in 1..Len(ret.before)
        /\ \A k, l \in 1..Len(processed) : k < l => processed[k] < processed[l]
        /\ \A i \in Range(processed) :
              /\ articles[i].id = ret.before[i].id
              /\ articles[i].content = ret.before[i].content
        /\ \A other \in BOOLEAN :
              \E alt \in {process_articles_run(self_categories, ret.before, other)} :
                 /\ alt.processed_articles = processed
                 /\ \A i \in Range(processed) : alt.entries[i].article = articles[i]
        /\ \A i \in Range(processed) :
              \E single \in {process_articles_run(self_categories, <<ret.before[i]>>, FALSE)} :
                 /\ single.processed_articles = <<1>>
                 /\ single.entries[1].article = articles[i]

\* C26's case: fit_transform raised on a batch of three, the stages of the
\* second article raised in the fallback loop; the first and the third are
\* returned in this order.
C26_Witness ==
    /\ ProcessDone
    /\ Len(articles) = 3
    /\ ret.fit_raises
    /\ StageFails(2)
    /\ processed = <<1, 3>>
    /\ articles[1].summary # None /\ articles[3].summary # None


(***************************************************************************)
(* SpecUsers: the users map of UserManager under create_user, update_user, *)
(* delete_user and get_user.  A user is its id and its name; the other     *)
(* fields are set as the name is.                                          *)
(***************************************************************************)
\* the ids uuid4 gives, a new one at every call
IdPool == {ArticleIds[i] : i \in 1..MaxUsers}

\* an id no user was created with
UnknownId == "nobody"

\* the attributes of a User that update_user can set
UserFields == {"id", "name"}

\* the keyword arguments of update_user: fields of User and a name that is none
Kwargs == UNION {[K -> {"new"}] : K \in SUBSET (UserFields \cup {"nickname"})}

\* the value of dict.get for a missing key
NoUser == [id |-> "<None>", name |-> "<None>"]

\* self.users.get(user_id)
get_user(map, user_id) == IF user_id \in DOMAIN map THEN map[user_id] ELSE NoUser

\* for key, value in kwargs.items(): if hasattr(user, key): setattr(user, key, value)
SetAttributes(user, kwargs) ==
    [id |-> IF "id" \in DOMAIN kwargs THEN kwargs["id"] ELSE user.id,
     name |-> IF "name" \in DOMAIN kwargs THEN kwargs["name"] ELSE user.name]

\* the users after _load_users: each under its id
LoadedUsers ==
    {[k \in K |-> [id |-> k, name |-> "Ann"]] : K \in SUBSET IdPool \ {{}}}

UsersInit ==
    /\ users \in LoadedUsers
    /\ articles = <<>>
    /\ self_categories = DefaultCategories
    /\ processed = <<>>
    /\ newsletter = NoNewsletter
    /\ scored = {}
    /\ overwrote = FALSE
    /\ call = NoCall
    /\ ret = 0
    /\ pc = "users"

UsersIdle == UNCHANGED <<articles, self_categories, processed, newsletter, scored, overwrote, pc>>

\* UserManager.create_user
CreateUser ==
    /\ pc = "users"
    /\ \E user_id \in IdPool \ DOMAIN users :
          /\ users' = [k \in DOMAIN users \cup {user_id} |->
                          IF k = user_id THEN [id |-> user_id, name |-> "Ann"] ELSE users[k]]
          /\ call' = [fn |-> "create_user", user_id |-> user_id]
          /\ ret' = [id |-> user_id, name |-> "Ann"]
    /\ UsersIdle

\* UserManager.update_user
UpdateUser ==
    /\ pc = "users"
    /\ \E user_id \in IdPool \cup {UnknownId}, kwargs \in Kwargs :
          /\ call' = [fn |-> "update_user", user_id |-> user_id]
          /\ IF get_user(users, user_id) = NoUser
             THEN /\ users' = users
                  /\ ret' = NoUser
             ELSE /\ users' = [users EXCEPT ![user_id] = SetAttributes(@, kwargs)]
                  /\ ret' = SetAttributes(users[user_id], kwargs)
    /\ UsersIdle

\* UserManager.delete_user
DeleteUser ==
    /\ pc = "users"
    /\ \E user_id \in IdPool \cup {UnknownId} :
          /\ call' = [fn |-> "delete_user", user_id |-> user_id]
          /\ IF user_id \in DOMAIN users
             THEN /\ users' = [k \in DOMAIN users \ {user_id} |-> users[k]]
                  /\ ret' = TRUE
             ELSE /\ users' = users
                  /\ ret' = FALSE
    /\ UsersIdle

\* UserManager.get_user
GetUser ==
    /\ pc = "users"
    /\ \E user_id \in IdPool \cup {UnknownId} :
          /\ call' = [fn |-> "get_user", user_id |-> user_id]
          /\ ret' = get_user(users, user_id)
    /\ users' = users
    /\ UsersIdle

UsersNext == CreateUser \/ UpdateUser \/ DeleteUser \/ GetUser

SpecUsers == UsersInit /\ [][UsersNext]_vars

\* update_user and delete_user with an id that is no key leave the map as it
\* is and return None and False; after delete_user returned True the id is no
\* key, so get_user returns None
UnknownAndDeleted ==
    /\ (call'.fn = "update_user" /\ call'.user_id \notin DOMAIN users)
          => (ret' = NoUser /\ users' = users)
    /\ (call'.fn = "delete_user" /\ call'.user_id \notin DOMAIN users)
          => (ret' = FALSE /\ users' = users)
    /\ (call'.fn = "delete_user" /\ ret' = TRUE)
          => get_user(users', call'.user_id) = NoUser

\* C29: after any sequence of create_user, update_user and delete_user every
\* key k of the users map has users[k].id = k; update_user and delete_user
\* with an unknown id return None and False and leave the map unchanged; and
\* after a successful delete_user(k), get_user(k) returns None.
C29_KeysMatchIds ==
    /\ [](\A k \in DOMAIN users : users[k].id = k)
    /\ [][UnknownAndDeleted]_vars

\* C29's failing case: update_user was called with id among its keyword
\* arguments; the user is still under its key, with another id.
C29_Witness ==
    /\ pc = "users"
    /\ call.fn = "update_user"
    /\ call.user_id \in DOMAIN users
    /\ users[call.user_id].id = "new"
    /\ ret.id = "new"

\* C29 but for the ids: the returns and the map on unknown ids and after a delete.
C29_RestHolds == [][UnknownAndDeleted]_vars


(***************************************************************************)
(* SpecFetch: RSSFetcher.fetch_all_feeds over the feeds, fetch_feed one    *)
(* pass of its while loop at a time.  feedparser.parse raises or returns   *)
(* the feed's entries; _parse_entry returns an article or None.            *)
(***************************************************************************)
\* what _parse_entry makes of an entry: an article, or None after an exception
EntryKinds == {"article", "unparsable"}

\* articles of fetch_feed after the loop over feed.entries[:max_articles_per_feed]
ParsedArticles(feed, entries, max_articles_per_feed) ==
    SelectSeq([i \in 1..Min(Len(entries), max_articles_per_feed) |->
                  [feed |-> feed, entry |-> i, parsed |-> entries[i] = "article"]],
              LAMBDA a : a.parsed)

FetchInit ==
    /\ articles = <<>>
    /\ users = <<>>
    /\ self_categories = DefaultCategories
    /\ processed = <<>>
    /\ newsletter = NoNewsletter
    /\ scored = {}
    /\ overwrote = FALSE
    /\ \E retry_attempts \in 0..MaxRetries, max_articles_per_feed \in 0..MaxPerFeed :
          call = [fn |-> "fetch_all_feeds",
                  retry_attempts |-> retry_attempts,
                  max_articles_per_feed |-> max_articles_per_feed,
                  feed |-> 1, attempts |-> 0, parses |-> 0, called |-> {1}]
    /\ ret = [outcome |-> "pending", none |-> TRUE, value |-> <<>>, entries |-> <<>>]
    /\ pc = "fetch_feed"

FetchIdle == UNCHANGED <<users, self_categories, processed, newsletter, scored, overwrote>>

\* a pass of the while loop in which nothing raises: return articles
AttemptSucceeds ==
    /\ pc = "fetch_feed"
    /\ call.attempts < call.retry_attempts
    /\ \E entries \in SeqsUpTo(EntryKinds, MaxEntries) :
          ret' = [outcome |-> "fetched",
                  none |-> FALSE,
                  value |-> ParsedArticles(call.feed, entries, call.max_articles_per_feed),
                  entries |-> entries]
    /\ call' = [call EXCEPT !.parses = @ + 1]
    /\ pc' = "returned"
    /\ UNCHANGED articles
    /\ FetchIdle

\* a pass of the while loop in which feedparser.parse raises: attempts += 1,
\* then the next pass or return []
AttemptFails ==
    /\ pc = "fetch_feed"
    /\ call.attempts < call.retry_attempts
    /\ call' = [call EXCEPT !.attempts = @ + 1, !.parses = @ + 1]
    /\ IF call.attempts + 1 < call.retry_attempts
       THEN UNCHANGED <<ret, pc>>
       ELSE /\ ret' = [outcome |-> "failed", none |-> FALSE, value |-> <<>>, entries |-> <<>>]
            /\ pc' = "returned"
    /\ UNCHANGED articles
    /\ FetchIdle

\* the condition of the while loop is false: the function ends without a
\* return statement and its value is None
LoopEnds ==
    /\ pc = "fetch_feed"
    /\ ~(call.attempts < call.retry_attempts)
    /\ ret' = [outcome |-> "ended", none |-> TRUE, value |-> <<>>, entries |-> <<>>]
    /\ pc' = "returned"
    /\ UNCHANGED <<articles, call>>
    /\ FetchIdle

\* fetch_all_feeds: all_articles.extend(feed_articles), which raises on None,
\* the exception being caught; then the next feed
NextFeed ==
    /\ pc = "returned"
    /\ articles' = IF ret.none THEN articles ELSE articles \o ret.value
    /\ IF call.feed < MaxFeeds
       THEN /\ call' = [call EXCEPT !.feed = @ + 1, !.attempts = 0, !.parses = 0,
                                    !.called = @ \cup {call.feed + 1}]
            /\ pc' = "fetch_feed"
       ELSE /\ call' = call
            /\ pc' = "done"
    /\ UNCHANGED ret
    /\ FetchIdle

FetchNext == AttemptSucceeds \/ AttemptFails \/ LoopEnds \/ NextFeed

SpecFetch == FetchInit /\ [][FetchNext]_vars /\ WF_vars(FetchNext)

\* what C30 says of a call of fetch_feed that has returned
ReturnsList ==
    /\ ~ret.none
    /\ call.parses <= call.retry_attempts
    /\ ret.outcome \in {"fetched", "failed"}
    /\ ret.outcome = "fetched" =>
          /\ Len(ret.value) <= call.max_articles_per_feed
          /\ \A k \in 1..Len(ret.value) :
                /\ ret.value[k].entry \in 1..Len(ret.entries)
                /\ ret.entries[ret.value[k].entry] = "article"
                /\ \A l \in 1..(k - 1) : ret.value[l].entry < ret.value[k].entry
          /\ \A i \in 1..Min(Len(ret.entries), call.max_articles_per_feed) :
                ret.entries[i] = "article" => \E k \in 1..Len(ret.value) : ret.value[k].entry = i
    /\ ret.outcome = "failed" =>
          /\ ret.value = <<>>
          /\ call.parses = call.retry_attempts

\* C30: fetch_feed returns after at most retry_attempts attempts, and returns
\* a list: the articles of the first attempt that succeeded, at most
\* max_articles_per_feed of them, or the empty list when the last attempt
\* failed, for every retry_attempts >= 0; and fetch_all_feeds calls fetch_feed
\* for every feed, whatever the earlier feeds gave.
C30_FetchFeedReturnsList ==
    /\ call.parses <= call.retry_attempts
    /\ pc = "returned" => ReturnsList
    /\ pc = "done" => call.called = 1..MaxFeeds

\* C30's failing case: retry_attempts is 0, the loop is not entered and
\* fetch_feed returns None.
C30_Witness ==
    /\ pc = "returned"
    /\ call.retry_attempts = 0
    /\ call.parses = 0
    /\ ret.outcome = "ended"
    /\ ret.none

\* C30 for retry_attempts >= 1
C30_RestHolds ==
    call.retry_attempts >= 1 =>
        /\ call.parses <= call.retry_attempts
        /\ pc = "returned" => ReturnsList
        /\ pc = "done" => call.called = 1..MaxFeeds

\* fetch_all_feeds ends, every call of fetch_feed having returned
C30_Terminates == <>(pc = "done")

\* a feed whose attempts all failed is followed by a feed that is fetched
C30_WitnessRest ==
    /\ pc = "returned"
    /\ call.feed = 2
    /\ call.retry_attempts = 2
    /\ articles = <<>>
    /\ ret.outcome = "fetched"
    /\ Len(ret.value) = 1 /\ Len(ret.entries) = 2


(***************************************************************************)
(* SpecRender: process_data call by call: process_articles, then for each  *)
(* reader in turn calculate_relevance_for_user and generate_newsletter on  *)
(* the articles process_articles returned.                                 *)
(***************************************************************************)
RenderInit ==
    /\ articles \in BatchArticles
    /\ users = Readers
    /\ self_categories \in {DefaultCategories, CustomCategories}
    /\ processed = <<>>
    /\ newsletter = NoNewsletter
    /\ scored = {}
    /\ overwrote = FALSE
    /\ call = [fn |-> "process_data", reader |-> 1, handed |-> {}]
    /\ ret = <<>>
    /\ pc = "process_articles"

\* processed_articles = article_processor.process_articles(articles)
RunProcessArticles ==
    /\ pc = "process_articles"
    /\ \E result \in {process_articles(self_categories, articles)} :
          /\ articles' = result.articles
          /\ processed' = result.returned
    /\ pc' = "calculate_relevance_for_user"
    /\ UNCHANGED <<users, self_categories, newsletter, scored, overwrote, call, ret>>

\* user_articles = article_processor.calculate_relevance_for_user(processed_articles, user)
ScoreReader ==
    /\ pc = "calculate_relevance_for_user"
    /\ articles' = calculate_relevance_for_user(articles, processed,
                                                users[UserOrder[call.reader]])
    /\ scored' = scored \cup {<<i, UserOrder[call.reader]>> : i \in Range(processed)}
    /\ pc' = "generate_newsletter"
    /\ UNCHANGED <<users, self_categories, processed, newsletter, overwrote, call, ret>>

\* newsletter = newsletter_generator.generate_newsletter(user, user_articles);
\* the articles passed are handed to rendering, ret keeps them as they were
\* when the first newsletter was generated
RenderReader ==
    /\ pc = "generate_newsletter"
    /\ newsletter' = generate_newsletter(Returned(articles, processed),
                                         users[UserOrder[call.reader]], MaxArticlesNone)
    /\ ret' = IF call.handed = {} THEN articles ELSE ret
    /\ IF call.reader < Len(UserOrder)
       THEN /\ call' = [call EXCEPT !.reader = @ + 1, !.handed = @ \cup Range(processed)]
            /\ pc' = "calculate_relevance_for_user"
       ELSE /\ call' = [call EXCEPT !.handed = @ \cup Range(processed)]
            /\ pc' = "done"
    /\ UNCHANGED <<articles, users, self_categories, processed, scored, overwrote>>

RenderNext == RunProcessArticles \/ ScoreReader \/ RenderReader

SpecRender == RenderInit /\ [][RenderNext]_vars

\* C24: once an article has been passed to generate_newsletter for a reader,
\* no field of it, the relevance map included, is modified in the rest of
\* the run of process_data.
C24_ImmutableOnceRendered ==
    \A i \in call.handed : articles[i] = ret[i]

\* C24's failing case: the articles were passed to generate_newsletter for the
\* first reader, then calculate_relevance_for_user for the second reader
\* wrote its entry into their relevance maps.
C24_Witness ==
    /\ pc = "generate_newsletter"
    /\ call.reader = 2
    /\ \E i \in call.handed :
          /\ DOMAIN ret[i].relevance_scores = {"u1"}
          /\ DOMAIN articles[i].relevance_scores = {"u1", "u2"}

\* C24 but for the relevance map: the other fields of an article passed to
\* generate_newsletter are not modified, nor the entries its map had.
C24_RestHolds ==
    \A i \in call.handed :
        /\ [articles[i] EXCEPT !.relevance_scores = EmptyDict]
              = [ret[i] EXCEPT !.relevance_scores = EmptyDict]
        /\ \A u \in DOMAIN ret[i].relevance_scores :
              /\ u \in DOMAIN articles[i].relevance_scores
              /\ articles[i].relevance_scores[u] = ret[i].relevance_scores[u]


(***************************************************************************)
(* SpecConcurrent: calculate_relevance_for_user run by one thread for each *)
(* reader over the same articles.  A thread's steps are, article after     *)
(* article, the call of matches_article and the call of                    *)
(* add_user_relevance, whose assignment to the dict is one step of the     *)
(* interpreter; the threads' steps interleave in any order.                *)
(***************************************************************************)
\* the articles process_articles returned on a fetched batch
ProcessedBatches ==
    {Returned(process_articles(categories, arts).articles,
              process_articles(categories, arts).returned) :
        categories \in {DefaultCategories, CustomCategories}, arts \in BatchArticles}

\* a thread before its first article
ThreadStart == [article |-> 1, at |-> "matches_article", relevance_score |-> 0]

ConcurrentInit ==
    /\ articles \in ProcessedBatches
    /\ users = Readers
    /\ self_categories = DefaultCategories
    /\ processed = <<>>
    /\ newsletter = NoNewsletter
    /\ scored = {}
    /\ overwrote = FALSE
    /\ call = [u \in UserIds |-> ThreadStart]
    /\ ret = articles
    /\ pc = "threads"

ConcurrentIdle == UNCHANGED <<users, self_categories, processed, newsletter, overwrote, ret, pc>>

\* relevance_score = user.matches_article(...), in the thread of reader u
ComputeScore(u) ==
    /\ pc = "threads"
    /\ call[u].at = "matches_article"
    /\ call[u].article <= Len(articles)
    /\ call' = [call EXCEPT ![u].relevance_score =
                   matches_article(users[u], articles[call[u].article].keywords,
                                   articles[call[u].article].source,
                                   articles[call[u].article].category),
                            ![u].at = "add_user_relevance"]
    /\ UNCHANGED <<articles, scored>>
    /\ ConcurrentIdle

\* article.add_user_relevance(user.id, relevance_score), in the thread of reader u
WriteScore(u) ==
    /\ pc = "threads"
    /\ call[u].at = "add_user_relevance"
    /\ articles' = [articles EXCEPT ![call[u].article] =
                       add_user_relevance(@, users[u].id, call[u].relevance_score)]
    /\ scored' = scored \cup {<<call[u].article, u>>}
    /\ call' = [call EXCEPT ![u].article = @ + 1, ![u].at = "matches_article"]
    /\ ConcurrentIdle

ConcurrentNext == \E u \in UserIds : ComputeScore(u) \/ WriteScore(u)

SpecConcurrent == ConcurrentInit /\ [][ConcurrentNext]_vars

\* the thread of reader u has returned
Returns(u) == call[u].at = "matches_article" /\ call[u].article > Len(articles)

\* the score of article i a call for reader u alone gives
SequentialScore(u, i) ==
    calculate_relevance_for_user(ret, [k \in 1..Len(ret) |-> k], users[u])[i].relevance_scores[u]

\* C25: in every interleaving of the threads' steps, an entry of a relevance
\* map is the score the sequential call gives for its reader and was written
\* by that reader's thread; and when all threads have returned every article
\* has the entry of every reader.
C25_ConcurrentScores ==
    /\ pc = "threads" =>
          \A i \in 1..Len(articles) : \A u \in DOMAIN articles[i].relevance_scores :
              /\ <<i, u>> \in scored
              /\ articles[i].relevance_scores[u] = SequentialScore(u, i)
    /\ (pc = "threads" /\ \A u \in UserIds : Returns(u)) =>
          \A i \in 1..Len(articles) : DOMAIN articles[i].relevance_scores = UserIds
    /\ pc = "threads" =>
          \A i \in 1..Len(articles) : \A u \in UserIds :
              <<i, u>> \in scored => u \in DOMAIN articles[i].relevance_scores

\* C25's case: the thread of the second reader wrote the entries of two
\* articles while the thread of the first had computed its score of the
\* first article and not written it; all have returned and the first article
\* has both entries, with different scores.
C25_Witness ==
    /\ pc = "threads"
    /\ \A u \in UserIds : Returns(u)
    /\ Len(articles) >= 2
    /\ DOMAIN articles[1].relevance_scores = UserIds
    /\ articles[1].relevance_scores["u1"] # articles[1].relevance_scores["u2"]

\* C25's interleaving: a thread is between its two calls on an article whose
\* map holds the other thread's entry already.
C25_WitnessInterleaved ==
    /\ pc = "threads"
    /\ call["u1"].at = "add_user_relevance"
    /\ call["u1"].article = 1
    /\ call["u2"].article >= 2
    /\ DOMAIN articles[1].relevance_scores = {"u2"}


=============================================================================
